---- MODULE Spec2Model ----
(***************************************************************************)
(* Model of the picksync scan pipeline: the scheduler's runScan            *)
(* coordinator, the batch analyzer analyzeWithGamblina, the scan-status    *)
(* tracker and the persistence layer (saveScan / savePicksForScan).        *)
(*                                                                         *)
(* The repository ships several builds of the persistence layer.  The     *)
(* variable impl fixes, at process start, which one is linked in:          *)
(*   "pg"     src/database.js, IS_VERCEL branch (Neon Postgres, every      *)
(*            statement is awaited on a connection pool)                   *)
(*   "sqlite" src/database.js, else branch (better-sqlite3, synchronous    *)
(*            statements inside async functions)                           *)
(*   "legacy" src/unnamed/part_005 lines 865-1501 (better-sqlite3,         *)
(*            synchronous functions)                                       *)
(* A storage statement may fail (storage unavailable, constraint           *)
(* violation); failures are inputs of the actions.                         *)
(***************************************************************************)
EXTENDS Integers, Sequences, FiniteSets, Bags, TLC

VARIABLES
    impl,       \* persistence build linked into the process
    zeroFails,  \* TRUE: runScan of part_005:725 (throws on zero picks); FALSE: part_002
    scans,      \* table scans: set of rows [id, date, cur]
    picks,      \* table picks: bag of rows <<scan_id, natural key>>
    schedLog,   \* number of rows of the operational log table
    isRunning,  \* scheduler's single-flight flag
    status,     \* scanState.js currentScanStatus
    nextId,     \* clock: the next scan id handed out by Date.now()
    pc,         \* per trigger: where its runScan call stands
    result,     \* per trigger: what its last runScan call returned
    run,        \* locals of the runScan call that is inside the pipeline
    an,         \* activation of analyzeWithGamblina
    cache,      \* batch memo: set of [fp, picks]
    ss,         \* saveScan promises nobody awaits ("pg" build), in call order
    calls,      \* number of calls made so far by the triggers (or by the analyzer driver)
    last,       \* record of the last persistence call made by the store driver
    pending,    \* server.js global.pendingScan
    req,        \* per request slot: the POST /api/scan/process-batch call it carries
    rcache,     \* response entries of the cache: set of keys present
    bscan,      \* scan:<id>:* entries of the cache (batchScanner.js), one record per id
    bookmark,   \* scan_state.last_comment_id (0: no row)
    q,          \* the query() call in progress
    scanState,  \* scanState.js scanState.lastCommentId, in memory (0: null)
    ret,        \* what the last call of a library driver returned
    nc,         \* the NodeCache instance of the cache module: set of [key, val, ttl]
    rd,         \* the GET /api/picks/today request in progress, and what it cached
    rl          \* rateLimit.js: rateLimitStore, the clock, and the requests passed on

vars == <<impl, zeroFails, scans, picks, schedLog, isRunning, status, nextId,
          pc, result, run, an, cache, ss, calls, last, pending, req, rcache, bscan,
          bookmark, q, scanState, ret, nc, rd, rl>>

\* state of the modules that the drivers of single functions exercise
libVars == <<scanState, ret, nc, rd, rl>>

----------------------------------------------------------------------------
(* Bounds *)

MaxSaves == 3      \* scan ids handed out in one behaviour
MaxRows == 2       \* rows of the picks table
MaxItems == 2      \* length of an item list passed to savePicksForScan by the driver
MaxComments == 5   \* comments of a fetched thread
BATCH_SIZE == 2    \* gamblina.js BATCH_SIZE (45 in the source), scaled down
MaxCalls == 2      \* runScan calls made in one behaviour
MaxPicks == 2      \* extractions the Analysis Service returns for one scan
MaxReqs == 2       \* POST /api/scan/process-batch requests in one behaviour
MaxStepComments == 2  \* comments of a thread fetched by POST /api/scan/prepare
MaxPrepares == 2   \* POST /api/scan/prepare requests in one behaviour
batchSize == 1     \* server.js BATCH_SIZE of the step-wise endpoints (15), scaled down

Impls == {"pg", "sqlite", "legacy"}
Keys == {"k1", "k2"}
NoDate == "none"

----------------------------------------------------------------------------
(* Persistence layer: tables and statements *)

CurrentRows(s) == {r \in s : r.cur}

\* number of pick rows stored under a scan id
RowsOfScan(p, sid) ==
    BagCardinality([x \in {y \in DOMAIN p : y[1] = sid} |-> p[x]])

HasPick(p, sid, key) == BagIn(<<sid, key>>, p)

\* UPDATE scans SET is_current = 0 [WHERE is_current = 1]
ExecDemote(db) ==
    [db EXCEPT !.scans = {[r EXCEPT !.cur = FALSE] : r \in db.scans}]

\* DELETE FROM picks WHERE scan_id = ?
ExecDelPicks(db, sid) ==
    [db EXCEPT !.picks = [x \in {y \in DOMAIN db.picks : y[1] # sid} |-> db.picks[x]]]

\* DELETE FROM scans WHERE potd_date = ?
ExecDelScans(db, d) ==
    [db EXCEPT !.scans = {r \in db.scans : r.date # d}]

\* INSERT INTO scans (...) VALUES (..., is_current = 1)
ExecInsScan(db, id, d, total) ==
    [db EXCEPT !.scans = db.scans \cup {[id |-> id, date |-> d, cur |-> TRUE,
                                         total |-> total]}]

\* INSERT INTO picks (...) VALUES (...)
ExecInsPick(db, sid, key) ==
    [db EXCEPT !.picks = db.picks (+) SetToBag({<<sid, key>>})]

Stmt(op, sid, d) == [op |-> op, sid |-> sid, date |-> d, total |-> 0]

\* the INSERT of a scan row with its total_picks
InsScan(sid, d, total) == [Stmt("insScan", sid, d) EXCEPT !.total = total]

ApplyStmt(db, st) ==
    CASE st.op = "demote"   -> ExecDemote(db)
      [] st.op = "delPicks" -> ExecDelPicks(db, st.sid)
      [] st.op = "delScans" -> ExecDelScans(db, st.date)
      [] st.op = "insScan"  -> ExecInsScan(db, st.sid, st.date, st.total)
      [] st.op = "insPick"  -> ExecInsPick(db, st.sid, st.key)

\* scans.id is the PRIMARY KEY: inserting an id that exists raises
StmtRaises(db, st) ==
    st.op = "insScan" /\ \E r \in db.scans : r.id = st.sid

RECURSIVE SortedIds(_)
SortedIds(S) ==
    IF S = {} THEN <<>>
    ELSE LET m == CHOOSE x \in S : \A y \in S : x <= y
         IN <<m>> \o SortedIds(S \ {m})

----------------------------------------------------------------------------
(* extractPOTDDate: the grouping key of a scan, from the thread title *)

Titles == {"POTD 11/8/24", "POTD 11/9/24", "Daily thread"}

\* new Date().toLocaleDateString('en-US'), the fallback of a title without a date
Today == "11/9/2024"

extractPOTDDate(potdTitle) ==
    CASE potdTitle = "POTD 11/8/24" -> "11/8/24"
      [] potdTitle = "POTD 11/9/24" -> "11/9/24"
      [] OTHER -> Today

----------------------------------------------------------------------------
(* saveScan *)

\* SELECT id, potd_date FROM scans WHERE is_current = 1, first row: the query has no
\* ORDER BY, so with several current rows any of them may come first
ExistingCurrent(db) ==
    IF CurrentRows(db.scans) = {} THEN {NoDate}
    ELSE {r.date : r \in CurrentRows(db.scans)}

\* database.js saveScan: the statements issued after the SELECT returned a row of
\* date ec (NoDate: no row)
SaveScanPlanDb(db, id, d, ec, total) ==
    IF ec # NoDate /\ ec # d
    THEN <<Stmt("demote", 0, d), InsScan(id, d, total)>>
    ELSE <<InsScan(id, d, total)>>

\* part_005 saveScan (legacy build): the statements issued after the SELECT by date
SaveScanPlanLegacy(db, id, d, total) ==
    LET oldScans == SortedIds({r.id : r \in {x \in db.scans : x.date = d}})
    IN IF oldScans # <<>>
       THEN [i \in 1..Len(oldScans) |-> Stmt("delPicks", oldScans[i], d)]
            \o <<Stmt("delScans", 0, d), InsScan(id, d, total)>>
       ELSE <<Stmt("demote", 0, d), InsScan(id, d, total)>>

SaveScanPlan(v, db, id, d, ec, total) ==
    IF v = "legacy" THEN SaveScanPlanLegacy(db, id, d, total)
    ELSE SaveScanPlanDb(db, id, d, ec, total)

\* the first k statements of a plan, applied in order
RECURSIVE RunPlan(_, _, _)
RunPlan(db, plan, k) ==
    IF k = 0 THEN db
    ELSE ApplyStmt(RunPlan(db, plan, k - 1), plan[k])

\* the first statement of the plan that raises by itself (0: none)
RECURSIVE FirstRaise(_, _, _)
FirstRaise(db, plan, k) ==
    IF k > Len(plan) THEN 0
    ELSE IF StmtRaises(db, plan[k]) THEN k
    ELSE FirstRaise(ApplyStmt(db, plan[k]), plan, k + 1)

\* saveScan as a whole: failAt = 0, every statement the storage engine is asked to
\* run succeeds; failAt = j, the engine fails statement j.  None of the builds wraps
\* the statements in a transaction, so the statements before the failing one stay.
SaveScan(v, db, id, d, ec, failAt, total) ==
    LET plan == SaveScanPlan(v, db, id, d, ec, total)
        pk   == FirstRaise(db, plan, 1)
        stop == IF failAt # 0 /\ (pk = 0 \/ failAt <= pk) THEN failAt ELSE pk
    IN IF stop = 0
       THEN [db |-> RunPlan(db, plan, Len(plan)), threw |-> FALSE]
       ELSE [db |-> RunPlan(db, plan, stop - 1), threw |-> TRUE]

----------------------------------------------------------------------------
(* savePicksForScan *)

\* database.js, IS_VERCEL branch: one INSERT per item, each in its own try/catch that
\* swallows the error; fails is the set of positions whose INSERT the engine fails
RECURSIVE SavePicksPg(_, _, _, _, _)
SavePicksPg(db, sid, items, fails, i) ==
    IF i > Len(items) THEN db
    ELSE SavePicksPg(IF i \in fails THEN db ELSE ExecInsPick(db, sid, items[i]),
                     sid, items, fails, i + 1)

\* database.js, SQLite branch: db.transaction over plain INSERTs
RECURSIVE SavePicksSqlite(_, _, _, _)
SavePicksSqlite(db, sid, items, i) ==
    IF i > Len(items) THEN db
    ELSE SavePicksSqlite(ExecInsPick(db, sid, items[i]), sid, items, i + 1)

\* part_005 (legacy build): db.transaction, checkDuplicate on (scan_id, poster, teams,
\* pick) before each INSERT
RECURSIVE SavePicksLegacy(_, _, _, _)
SavePicksLegacy(db, sid, items, i) ==
    IF i > Len(items) THEN db
    ELSE SavePicksLegacy(IF HasPick(db.picks, sid, items[i]) THEN db
                         ELSE ExecInsPick(db, sid, items[i]),
                         sid, items, i + 1)

\* savePicksForScan as a whole; a failing statement rolls a transaction back and raises
SavePicksForScan(v, db, sid, items, fails) ==
    CASE v = "pg" -> [db |-> SavePicksPg(db, sid, items, fails, 1), threw |-> FALSE]
      [] v = "sqlite" ->
            IF fails = {} THEN [db |-> SavePicksSqlite(db, sid, items, 1), threw |-> FALSE]
            ELSE [db |-> db, threw |-> TRUE]
      [] v = "legacy" ->
            IF fails = {} THEN [db |-> SavePicksLegacy(db, sid, items, 1), threw |-> FALSE]
            ELSE [db |-> db, threw |-> TRUE]

----------------------------------------------------------------------------
(* Initial state: empty tables, idle scheduler, idle tracker *)

Triggers == {"timer", "manual"}

Db == [scans |-> scans, picks |-> picks]

\* scanState.js currentScanStatus as the module is loaded, and after resetScanStatus
IdleStatus ==
    [scanning |-> FALSE, step |-> "idle", progress |-> 0, details |-> "",
     error |-> "null", startTime |-> "null"]

NoRun ==
    [owner |-> "none", scanId |-> 0, title |-> "", picks |-> <<>>,
     pre |-> [scans |-> {}, picks |-> EmptyBag], left |-> <<>>,
     fault |-> "none", extracted |-> -1, listing |-> <<>>]

NoAn == [state |-> "idle", comments |-> <<>>, batchNum |-> 0, allPicks |-> <<>>,
         out |-> <<>>, calls |-> 0, inflight |-> 0, lookups |-> 0]

\* global.pendingScan is undefined
NoPending == [scanId |-> 0, title |-> "", comments |-> <<>>, numBatches |-> 0]

Reqs == {"r1", "r2"}

\* a request slot that carries no call; res is the last response sent from the slot
NoReq ==
    [kind |-> "none", state |-> "idle", scanId |-> 0, title |-> "", batchNum |-> 0,
     numBatches |-> 0,
     an |-> NoAn, out |-> <<>>, left |-> <<>>, res |-> "none"]

\* no library call has been made by a driver
NoRet == [fn |-> "none"]

\* no query() call has been made
NoQuery ==
    [state |-> "idle", st |-> [op |-> "none", sid |-> 0, date |-> "", key |-> "", total |-> 0],
     attempt |-> 0, tried |-> 0, err |-> "none"]

\* no GET /api/picks/today is in progress and none has cached a response
NoRd == [state |-> "idle", got |-> {}, unpromoted |-> 0, entry |-> {}, entryUnpromoted |-> 0,
         n |-> 0]

\* rateLimitStore is an empty Map, no request has reached a limiter
NoRl == [store |-> {}, now |-> 0, passed |-> EmptyBag, key |-> "none", res |-> "none",
         n |-> 0]

NoLast ==
    [op |-> "none", id |-> 0, date |-> "", threw |-> FALSE,
     pre |-> [scans |-> {}, picks |-> EmptyBag], rows |-> 0, items |-> <<>>,
     rep |-> FALSE, prevId |-> 0, prevDate |-> "", clean |-> TRUE]

Init ==
    /\ impl \in Impls
    /\ zeroFails \in BOOLEAN
    /\ scans = {}
    /\ picks = EmptyBag
    /\ schedLog = 0
    /\ isRunning = FALSE
    /\ status = IdleStatus
    /\ nextId = 1
    /\ pc = [c \in Triggers |-> "idle"]
    /\ result = [c \in Triggers |-> "none"]
    /\ run = NoRun
    /\ an = NoAn
    /\ cache = {}
    /\ ss = <<>>
    /\ calls = 0
    /\ last = NoLast
    /\ pending = NoPending
    /\ req = [r \in Reqs |-> NoReq]
    /\ rcache = {}
    /\ bscan = {}
    /\ bookmark = 0
    /\ q = NoQuery
    /\ scanState = 0
    /\ rd = NoRd
    /\ rl = NoRl
    /\ ret = NoRet
    /\ nc = {}

\* state of the step-wise endpoints, of the bookmark and of the query helper
stepVars == <<pending, req, bookmark, q, libVars>>

\* stepVars and the cache entries other than the batch memo
sideVars == <<stepVars, rcache, bscan>>

pipelineVars ==
    <<zeroFails, schedLog, isRunning, status, pc, result, run, an, cache, ss, calls>>

----------------------------------------------------------------------------
(* Store driver: a caller that awaits each persistence call before the next *)

ItemLists == UNION {[1..n -> Keys] : n \in 0..MaxItems}

\* await saveScan({id, potdTitle, ..., totalPicks: 0}) with a fresh scan id
DrvSaveScan ==
    /\ nextId <= MaxSaves
    /\ \E t \in Titles, ec \in ExistingCurrent(Db), total \in {0} :
         LET d == extractPOTDDate(t)
             plan == SaveScanPlan(impl, Db, nextId, d, ec, total)
         IN \E failAt \in 0..Len(plan) :
              LET r == SaveScan(impl, Db, nextId, d, ec, failAt, total)
              IN /\ scans' = r.db.scans
                 /\ picks' = r.db.picks
                 /\ last' = [op |-> "saveScan", id |-> nextId, date |-> d,
                             threw |-> r.threw,
                             pre |-> IF r.threw THEN Db ELSE NoLast.pre,
                             rows |-> BagCardinality(picks), items |-> <<>>,
                             rep |-> FALSE,
                             prevId |-> IF last.op = "saveScan" /\ ~last.threw
                                        THEN last.id
                                        ELSE IF last.op = "savePicks" THEN last.prevId
                                        ELSE 0,
                             prevDate |-> IF last.op = "saveScan" /\ ~last.threw
                                          THEN last.date
                                          ELSE IF last.op = "savePicks" THEN last.prevDate
                                          ELSE "",
                             clean |-> last.clean /\ ~r.threw]
    /\ nextId' = nextId + 1
    /\ UNCHANGED <<sideVars, impl, pipelineVars>>

\* await savePicksForScan(scanId, items) for a scan id handed out earlier
DrvSavePicks ==
    /\ \E sid \in 1..(nextId - 1), items \in ItemLists :
         /\ BagCardinality(picks) + Len(items) <= MaxRows
         /\ \E fails \in SUBSET (1..Len(items)) :
              LET r == SavePicksForScan(impl, Db, sid, items, fails)
              IN /\ scans' = r.db.scans
                 /\ picks' = r.db.picks
                 /\ last' = [op |-> "savePicks", id |-> sid, date |-> "",
                             threw |-> r.threw, pre |-> NoLast.pre,
                             rows |-> BagCardinality(picks), items |-> items,
                             rep |-> /\ last.op = "savePicks"
                                     /\ last.id = sid
                                     /\ last.items = items,
                             prevId |-> IF last.op = "saveScan" /\ ~last.threw
                                        THEN last.id ELSE last.prevId,
                             prevDate |-> IF last.op = "saveScan" /\ ~last.threw
                                          THEN last.date ELSE last.prevDate,
                             clean |-> last.clean /\ fails = {}]
    /\ UNCHANGED <<sideVars, impl, nextId, pipelineVars>>

NextStore == DrvSaveScan \/ DrvSavePicks

InitStore == Init /\ zeroFails = FALSE

SpecStore == InitStore /\ [][NextStore]_vars

----------------------------------------------------------------------------
(* query: one storage statement, with the retry loop of the helper *)

MaxQueries == 3

\* query(sqlQuery, params = [], retries = 3)
retries == 3

\* error.message.includes('Connection') || error.message.includes('timeout')
Transient == {"Connection", "timeout"}

\* the messages a failed statement can carry: a lost connection, a timeout, or a
\* rejection by the engine (a violated constraint)
ErrorKinds == Transient \cup {"constraint"}

\* the statements saveScan and savePicksForScan hand to query
QueryStmts ==
    {[op |-> "demote", sid |-> 0, date |-> NoDate, key |-> "", total |-> 0]}
    \cup {[op |-> "delScans", sid |-> 0, date |-> extractPOTDDate(t), key |-> "", total |-> 0] :
            t \in Titles}
    \cup {[op |-> "insScan", sid |-> i, date |-> extractPOTDDate(t), key |-> "", total |-> 0] :
            i \in 1..MaxRows, t \in Titles}
    \cup {[op |-> "insPick", sid |-> i, date |-> NoDate, key |-> k, total |-> 0] :
            i \in 1..MaxRows, k \in Keys}

\* a mutant of QueryGivesUp: the attempt counter is not tested
QueryGivesUpOnFatalOnly(attempt, e) == e \notin Transient

\* if (attempt === retries || !msg.includes('Connection') && !msg.includes('timeout'))
\*   throw error
QueryGivesUp(attempt, e) == attempt = retries \/ e \notin Transient

\* a caller awaits query(statement)
QueryCall ==
    /\ q.state \in {"idle", "returned", "threw"}
    /\ calls < MaxQueries
    /\ \E st \in QueryStmts :
         /\ st.op = "insPick" => BagCardinality(picks) < MaxRows
         /\ q' = [state |-> "attempt", st |-> st, attempt |-> 1, tried |-> 0,
                  err |-> "none"]
    /\ calls' = calls + 1
    /\ UNCHANGED <<pending, req, bookmark, libVars, rcache, bscan, impl, zeroFails, scans, picks,
                   schedLog, isRunning, status, nextId, pc, result, run, an, cache, ss,
                   last>>

\* the statement of the current attempt is executed and its rows are returned
QueryAttemptOk ==
    /\ q.state = "attempt"
    /\ ~StmtRaises(Db, q.st)
    /\ scans' = ApplyStmt(Db, q.st).scans
    /\ picks' = ApplyStmt(Db, q.st).picks
    /\ q' = [q EXCEPT !.state = "returned", !.tried = @ + 1]
    /\ UNCHANGED <<pending, req, bookmark, libVars, rcache, bscan, impl, zeroFails, schedLog,
                   isRunning, status, nextId, pc, result, run, an, cache, ss, calls, last>>

\* the statement of the current attempt raises: the catch block of the loop either
\* rethrows or waits 1000 * attempt ms before the next attempt
QueryAttemptFails ==
    /\ q.state = "attempt"
    /\ \E e \in ErrorKinds :
         /\ e = "constraint" => StmtRaises(Db, q.st)
         /\ q' = [q EXCEPT !.state = IF QueryGivesUp(q.attempt, e) THEN "threw"
                                     ELSE "delay",
                           !.tried = @ + 1,
                           !.err = e]
    /\ UNCHANGED <<pending, req, bookmark, libVars, rcache, bscan, impl, zeroFails, scans, picks,
                   schedLog, isRunning, status, nextId, pc, result, run, an, cache, ss,
                   calls, last>>

\* the delay between two attempts has elapsed: the loop increments attempt
QueryDelayElapsed ==
    /\ q.state = "delay"
    /\ q' = [q EXCEPT !.state = "attempt", !.attempt = @ + 1]
    /\ UNCHANGED <<pending, req, bookmark, libVars, rcache, bscan, impl, zeroFails, scans, picks,
                   schedLog, isRunning, status, nextId, pc, result, run, an, cache, ss,
                   calls, last>>

NextQuery == QueryCall \/ QueryAttemptOk \/ QueryAttemptFails \/ QueryDelayElapsed

\* the helper with the retry loop belongs to the builds of database.js
InitQuery == Init /\ zeroFails = FALSE /\ impl = "pg"

SpecQuery == InitQuery /\ [][NextQuery]_vars

\* C19 (as stated): a failed storage statement is not retried: each statement is
\* attempted at most once, and the error of a failed attempt is raised to the caller
C19_NoRetry ==
    /\ q.tried <= 1
    /\ q.err # "none" => q.state = "threw"

\* C19 (amended): query attempts a statement at most `retries` times; it tries again,
\* after a delay, only when the error message names a lost connection or a timeout,
\* and it raises every other error, and the error of the last attempt, to its caller;
\* a statement that succeeded is not attempted again
C19_BoundedRetry ==
    /\ [](/\ q.tried <= retries
          /\ q.state = "delay" => q.err \in Transient /\ q.tried < retries
          /\ q.state = "threw" => /\ q.err # "none"
                                  /\ q.err \notin Transient \/ q.tried = retries)
    /\ [][/\ q'.tried = q.tried + 1 => /\ q.state = "attempt"
                                       /\ q.tried > 0 => q.err \in Transient
          /\ (q.state = "attempt" /\ q'.err # q.err /\ q'.err \notin Transient)
             => q'.state = "threw"
          /\ q.state = "returned" => q'.tried = 0 \/ q'.tried = q.tried]_vars

C19_Witness ==
    /\ q.state = "threw"
    /\ q.tried = retries
    /\ q.err = "timeout"
    /\ q.st.op = "insPick"

----------------------------------------------------------------------------
(* Claims on the persistence layer, checked under SpecStore *)

\* C3: after any sequence of saveScan calls that all succeeded, exactly one scan row
\* is flagged is_current (zero only before the first save)
C3_ExactlyOneCurrent ==
    last.clean =>
        IF nextId = 1 THEN CurrentRows(scans) = {}
        ELSE Cardinality(CurrentRows(scans)) = 1

\* C5: saveScan is atomic: when one of its statements fails, the tables are as they
\* were before the call (the previously current run is still current, no row removed)
C5_SaveScanAtomic ==
    (last.op = "saveScan" /\ last.threw) => Db = last.pre

\* C8: saving run A and then run B with the same potd_date leaves exactly one scan
\* row for that date, B flagged current, and no pick row under A's scan id
C8_SameKeyCollapses ==
    (/\ last.op = "saveScan"
     /\ last.clean
     /\ last.prevId # 0
     /\ last.prevDate = last.date)
    => /\ {[id |-> r.id, date |-> r.date, cur |-> r.cur] :
               r \in {x \in scans : x.date = last.date}}
            = {[id |-> last.id, date |-> last.date, cur |-> TRUE]}
       /\ RowsOfScan(picks, last.prevId) = 0

\* C9: savePicksForScan is idempotent: a second call with the same scan id and the
\* same item list raises nothing and leaves the row count of the first call
C9_SavePicksIdempotent ==
    (last.op = "savePicks" /\ last.rep /\ last.clean)
    => /\ ~last.threw
       /\ BagCardinality(picks) = last.rows

----------------------------------------------------------------------------
(* Scan state tracker (scanState.js) *)

\* an update that reports scanning at every progress value, 100 included
updateScanStatusSticky(st, step, progress, details) ==
    [scanning |-> progress <= 100, step |-> step, progress |-> progress,
     details |-> details, error |-> "null",
     startTime |-> IF st.startTime # "null" THEN st.startTime ELSE "now"]

\* scanning: progress < 100; startTime: currentScanStatus.startTime || Date.now()
updateScanStatus(st, step, progress, details) ==
    [scanning |-> progress < 100, step |-> step, progress |-> progress,
     details |-> details, error |-> "null",
     startTime |-> IF st.startTime # "null" THEN st.startTime ELSE "now"]

\* a setScanError that starts from the idle record instead of the current one
setScanErrorClears(st, message) ==
    [IdleStatus EXCEPT !.error = IF message = "" THEN "Unknown error" ELSE message]

\* {...currentScanStatus, scanning: false, error: error.message || 'Unknown error'}
setScanError(st, message) ==
    [st EXCEPT !.scanning = FALSE,
               !.error = IF message = "" THEN "Unknown error" ELSE message]

resetScanStatus == IdleStatus

----------------------------------------------------------------------------
(* Batch analyzer (analyzeWithGamblina) *)

\* an extraction returned by the Analysis Service; conf = 0 stands for an absent
\* confidence field
Pick(key, conf) == [key |-> key, conf |-> conf]

\* the thread listing with n comments, newest first; a comment is its identifier
Listing(n) == [i \in 1..n |-> n + 1 - i]

\* replies of the Analysis Service that parse to a JSON array
Replies ==
    {<<>>, <<Pick("k1", 80)>>, <<Pick("k2", 0), Pick("k1", 80)>>,
     <<Pick("k1", 50), Pick("k1", 80)>>}

Min(a, b) == IF a < b THEN a ELSE b

\* a batch count that rounds down
NumBatchesFloor(n) ==
    IF n > BATCH_SIZE THEN n \div BATCH_SIZE ELSE 1

\* numBatches = needsBatching ? Math.ceil(length / BATCH_SIZE) : 1
NumBatches(n) ==
    IF n > BATCH_SIZE THEN (n + BATCH_SIZE - 1) \div BATCH_SIZE ELSE 1

\* allComments.slice(start, end) of batch batchNum (0-based)
BatchComments(comments, batchNum) ==
    SubSeq(comments, batchNum * BATCH_SIZE + 1,
           Min(batchNum * BATCH_SIZE + BATCH_SIZE, Len(comments)))

\* md5 over the batch's (author, text) pairs: the memo key identifies the content
CacheKey(batchComments) == batchComments

Cached(c, key) == {e \in c : e.key = key}

\* a setCache that stores nothing
setCacheDropped(c, key, value) == c

setCache(c, key, value) ==
    {e \in c : e.key # key} \cup {[key |-> key, picks |-> value]}

\* a failure handler that memoizes an empty extraction for the failed batch
FailedBatchCacheEmpty(c, key) == setCache(c, key, <<>>)

\* the memo after analyzeBatch threw: the throw leaves the loop before setCache
FailedBatchCache(c, key) == c

\* the loop from batch batchNum on, up to its next suspension point: memo hits are
\* consumed without suspending; the loop stops at the first miss or at the end;
\* lookups counts the getCache calls of the iterations run
RECURSIVE SkipHits(_, _, _, _)
SkipHits(c, comments, batchNum, allPicks) ==
    IF batchNum >= NumBatches(Len(comments))
    THEN [batchNum |-> batchNum, allPicks |-> allPicks, lookups |-> 0]
    ELSE LET hit == Cached(c, CacheKey(BatchComments(comments, batchNum)))
         IN IF hit = {}
            THEN [batchNum |-> batchNum, allPicks |-> allPicks, lookups |-> 1]
            ELSE LET r == SkipHits(c, comments, batchNum + 1,
                                   allPicks \o (CHOOSE e \in hit : TRUE).picks)
                 IN [r EXCEPT !.lookups = @ + 1]

\* pick.poster, the author name the Analysis Service attributes an extraction to:
\* extraction k1 names the author of comment 2, extraction k2 a name no comment has
Poster(key) == IF key = "k1" THEN 2 ELSE 0

\* c.author and c.score of a raw comment (a comment is its identifier)
Author(c) == c
Score(c) == 10 * c

\* allComments.find(c => c.author === pick.poster): the matching comments
Original(comments, poster) ==
    {comments[i] : i \in {j \in 1..Len(comments) : Author(comments[j]) = poster}}

\* the confidence tiers of the prompt sent to the Analysis Service: LOCK, STRONG,
\* DECENT, LEAN
ConfidenceTiers ==
    {[lo |-> 85, hi |-> 100], [lo |-> 70, hi |-> 84], [lo |-> 55, hi |-> 69],
     [lo |-> 40, hi |-> 54]}

LowestTier == CHOOSE t \in ConfidenceTiers : \A u \in ConfidenceTiers : t.lo <= u.lo

Midpoint(t) == (t.lo + t.hi) \div 2

\* an enrichment that copies the confidence field as it came
EnrichOneAsIs(pick, i, comments) ==
    [key |-> pick.key, confidence |-> pick.conf, rank |-> i,
     comment_author |-> Poster(pick.key), comment_score |-> 0, comment_body |-> ""]

\* the enriched record of the extraction at position i of the accumulated list
EnrichOne(pick, i, comments) ==
    LET original == Original(comments, Poster(pick.key))
    IN [key |-> pick.key,
        confidence |-> IF pick.conf = 0 THEN 50 ELSE pick.conf,
        rank |-> i,
        comment_author |-> Poster(pick.key),
        comment_score |-> IF original = {} THEN 0
                          ELSE Score(CHOOSE c \in original : TRUE),
        comment_body |-> IF original = {} THEN "" ELSE "text"]

\* an enrichment that keeps only the extractions whose author matches a comment
EnrichMatched(allPicks, comments) ==
    LET kept == SelectSeq(allPicks,
                          LAMBDA p : Original(comments, Poster(p.key)) # {})
    IN [i \in 1..Len(kept) |-> EnrichOne(kept[i], i, comments)]

\* enrichedPicks = allPicks.map(...): rank is the position before the sort, an absent
\* confidence becomes 50, an unmatched author gives score 0 and an empty body
Enrich(allPicks, comments) ==
    [i \in 1..Len(allPicks) |-> EnrichOne(allPicks[i], i, comments)]

\* an insertion that puts x before the items of equal confidence (an unstable sort)
RECURSIVE InsertBeforeEquals(_, _)
InsertBeforeEquals(sorted, x) ==
    IF sorted = <<>> THEN <<x>>
    ELSE IF Head(sorted).confidence > x.confidence
         THEN <<Head(sorted)>> \o InsertBeforeEquals(Tail(sorted), x)
         ELSE <<x>> \o sorted

\* insertion of x into a list sorted by confidence descending, after its equals
RECURSIVE InsertByConfidence(_, _)
InsertByConfidence(sorted, x) ==
    IF sorted = <<>> THEN <<x>>
    ELSE IF Head(sorted).confidence >= x.confidence
         THEN <<Head(sorted)>> \o InsertByConfidence(Tail(sorted), x)
         ELSE <<x>> \o sorted

\* enrichedPicks.sort((a, b) => b.confidence - a.confidence), a stable sort
RECURSIVE SortByConfidence(_)
SortByConfidence(list) ==
    IF list = <<>> THEN <<>>
    ELSE InsertByConfidence(SortByConfidence(SubSeq(list, 1, Len(list) - 1)),
                            list[Len(list)])

\* a loop that sends the requests of all remaining batches at once
AnalyzerResumeAll(a, c, batchNum, allPicks) ==
    LET r == SkipHits(c, a.comments, batchNum, allPicks)
        rest == NumBatches(Len(a.comments)) - r.batchNum
    IN IF rest <= 0
       THEN [a EXCEPT !.state = "returned", !.batchNum = r.batchNum,
                      !.allPicks = r.allPicks, !.lookups = a.lookups + r.lookups,
                      !.out = SortByConfidence(Enrich(r.allPicks, a.comments))]
       ELSE [a EXCEPT !.state = "call", !.batchNum = r.batchNum,
                      !.allPicks = r.allPicks, !.calls = a.calls + rest,
                      !.lookups = a.lookups + r.lookups,
                      !.inflight = a.inflight + rest]

\* the analyzer from batch batchNum on, up to its next suspension point
AnalyzerResume(a, c, batchNum, allPicks) ==
    LET r == SkipHits(c, a.comments, batchNum, allPicks)
    IN IF r.batchNum >= NumBatches(Len(a.comments))
       THEN [a EXCEPT !.state = "returned", !.batchNum = r.batchNum,
                      !.allPicks = r.allPicks, !.lookups = a.lookups + r.lookups,
                      !.out = SortByConfidence(Enrich(r.allPicks, a.comments))]
       ELSE [a EXCEPT !.state = "call", !.batchNum = r.batchNum,
                      !.allPicks = r.allPicks, !.calls = a.calls + 1,
                      !.lookups = a.lookups + r.lookups,
                      !.inflight = a.inflight + 1]

\* an analyzer without the empty-input return: the loop runs its single batch
AnalyzerCallUnguarded(c, comments) ==
    AnalyzerResume([NoAn EXCEPT !.comments = comments], c, 0, <<>>)

\* analyzeWithGamblina(allComments) up to its first suspension point
AnalyzerCall(c, comments) ==
    IF Len(comments) = 0
    THEN [NoAn EXCEPT !.state = "returned"]
    ELSE AnalyzerResume([NoAn EXCEPT !.comments = comments], c, 0, <<>>)

\* analyzeBatch threw: no try/catch around the call in the loop, so the whole
\* analyzeWithGamblina call rejects
AnalyzerBatchFailed(a) == [a EXCEPT !.state = "threw", !.inflight = a.inflight - 1]

\* analyzeBatch returned picks for the outstanding batch
AnalyzerBatchReturned(a, reply) ==
    IF a.batchNum < NumBatches(Len(a.comments)) - 1
    THEN [a EXCEPT !.state = "delay", !.batchNum = a.batchNum + 1,
                   !.allPicks = a.allPicks \o reply, !.inflight = a.inflight - 1]
    ELSE [a EXCEPT !.state = "returned", !.batchNum = a.batchNum + 1,
                   !.allPicks = a.allPicks \o reply, !.inflight = a.inflight - 1,
                   !.out = SortByConfidence(Enrich(a.allPicks \o reply, a.comments))]

----------------------------------------------------------------------------
(* Analyzer steps *)

\* the Analysis Service call of the outstanding batch returns and parses
AnBatchReply ==
    /\ an.state = "call"
    /\ \E reply \in Replies :
         /\ Len(an.allPicks) + Len(reply) <= MaxPicks
         /\ an' = AnalyzerBatchReturned(an, reply)
         /\ cache' = setCache(cache, CacheKey(BatchComments(an.comments, an.batchNum)),
                              reply)
    /\ UNCHANGED <<sideVars, impl, zeroFails, scans, picks, schedLog, isRunning, status, nextId,
                   pc, result, run, ss, calls, last>>

\* the Analysis Service call of the outstanding batch fails (timeout, non-success
\* status, unparsable payload)
AnBatchFail ==
    /\ an.state = "call"
    /\ an' = AnalyzerBatchFailed(an)
    /\ cache' = FailedBatchCache(cache, CacheKey(BatchComments(an.comments, an.batchNum)))
    /\ UNCHANGED <<sideVars, impl, zeroFails, scans, picks, schedLog, isRunning, status, nextId,
                   pc, result, run, ss, calls, last>>

\* the 2 s pause between two batches is over
AnDelayElapsed ==
    /\ an.state = "delay"
    /\ an' = AnalyzerResume(an, cache, an.batchNum, an.allPicks)
    /\ UNCHANGED <<sideVars, impl, zeroFails, scans, picks, schedLog, isRunning, status, nextId,
                   pc, result, run, cache, ss, calls, last>>

\* a caller invokes analyzeWithGamblina directly on a listing of n comments
DrvAnalyze ==
    /\ an.state \in {"idle", "returned", "threw"}
    /\ calls < MaxCalls
    /\ \E n \in 0..MaxComments : an' = AnalyzerCall(cache, Listing(n))
    /\ calls' = calls + 1
    /\ UNCHANGED <<sideVars, impl, zeroFails, scans, picks, schedLog, isRunning, status, nextId,
                   pc, result, run, cache, ss, last>>

NextAnalyze == DrvAnalyze \/ AnBatchReply \/ AnBatchFail \/ AnDelayElapsed

InitAnalyze == Init /\ zeroFails = FALSE /\ impl = "sqlite"

SpecAnalyze == InitAnalyze /\ [][NextAnalyze]_vars

\* C4: a single batch's failure never aborts the analysis: analyzeWithGamblina does
\* not reject because an Analysis Service call failed
C4_BatchFailureTolerated == an.state # "threw"

----------------------------------------------------------------------------
(* runScan pipeline (scheduler) *)

\* logSchedulerEvent is a no-op on the hosted build and an INSERT elsewhere, which
\* can raise
LogOks == IF impl = "pg" THEN {TRUE} ELSE BOOLEAN

logSchedulerEvent(log) == IF impl = "pg" THEN log ELSE log + 1

\* listing sizes the Thread Source returns to a run
RunListings == {0, 1, BATCH_SIZE + 1}

\* the catch block of runScan: log the failure, set the tracker error, release the
\* guard; an exception of the log call leaves the block at once
CatchOutcome(st, log, message, logOk) ==
    IF logOk
    THEN [isRunning |-> FALSE, status |-> setScanError(st, message),
          schedLog |-> logSchedulerEvent(log), result |-> "failure"]
    ELSE [isRunning |-> TRUE, status |-> st, schedLog |-> log, result |-> "threw"]

\* the tail of the try block after the cache calls: log the success, tracker to
\* complete/100, release the guard; an exception of the log call enters the catch
FinishOutcome(st, log, logOk, catchLogOk) ==
    IF logOk
    THEN [isRunning |-> FALSE,
          status |-> updateScanStatus(st, "complete", 100, "saved"),
          schedLog |-> logSchedulerEvent(log), result |-> "success"]
    ELSE CatchOutcome(st, log, "log", catchLogOk)

\* the call of trigger c settles with outcome o
Settle(c, o) ==
    /\ isRunning' = o.isRunning
    /\ status' = o.status
    /\ schedLog' = o.schedLog
    /\ pc' = [pc EXCEPT ![c] = "idle"]
    /\ result' = [result EXCEPT ![c] = o.result]

\* POST /api/scan while the tracker says scanning: answered without calling runScan
ManualRejected ==
    /\ pc["manual"] = "idle"
    /\ status.scanning
    /\ result' = [result EXCEPT !["manual"] = "rejected"]
    /\ UNCHANGED <<sideVars, impl, zeroFails, scans, picks, schedLog, isRunning, status, nextId,
                   pc, run, an, cache, ss, calls, last>>

\* a busy answer that also resets the tracker
RunScanBusyResets(c) ==
    /\ pc[c] = "idle"
    /\ c = "manual" => ~status.scanning
    /\ calls < MaxCalls
    /\ isRunning
    /\ result' = [result EXCEPT ![c] = "busy"]
    /\ status' = resetScanStatus
    /\ calls' = calls + 1
    /\ UNCHANGED <<sideVars, impl, zeroFails, scans, picks, schedLog, isRunning,
                   nextId, pc, run, an, cache, ss, last>>

\* runScan called while isRunning: returns 'Scan already running' at once
RunScanBusy(c) ==
    /\ pc[c] = "idle"
    /\ c = "manual" => ~status.scanning
    /\ calls < MaxCalls
    /\ isRunning
    /\ result' = [result EXCEPT ![c] = "busy"]
    /\ calls' = calls + 1
    /\ UNCHANGED <<sideVars, impl, zeroFails, scans, picks, schedLog, isRunning, status, nextId,
                   pc, run, an, cache, ss, last>>

\* runScan without the isRunning test of its first lines
RunScanStartUnguarded(c) ==
    /\ pc[c] = "idle"
    /\ c = "manual" => ~status.scanning
    /\ calls < MaxCalls
    /\ isRunning' = TRUE
    /\ run' = [NoRun EXCEPT !.owner = c, !.scanId = nextId, !.pre = Db]
    /\ nextId' = nextId + 1
    /\ status' = updateScanStatus(resetScanStatus, "reddit", 20, "fetching")
    /\ pc' = [pc EXCEPT ![c] = "fetch"]
    /\ result' = [result EXCEPT ![c] = "none"]
    /\ calls' = calls + 1
    /\ UNCHANGED <<sideVars, impl, zeroFails, scans, picks, schedLog, an, cache, ss, last>>

\* runScan called while idle: takes the guard and runs up to await getPOTDData()
RunScanStart(c) ==
    /\ pc[c] = "idle"
    /\ c = "manual" => ~status.scanning
    /\ calls < MaxCalls
    /\ ~isRunning
    /\ isRunning' = TRUE
    /\ run' = [NoRun EXCEPT !.owner = c, !.scanId = nextId, !.pre = Db]
    /\ nextId' = nextId + 1
    /\ status' = updateScanStatus(resetScanStatus, "reddit", 20, "fetching")
    /\ pc' = [pc EXCEPT ![c] = "fetch"]
    /\ result' = [result EXCEPT ![c] = "none"]
    /\ calls' = calls + 1
    /\ UNCHANGED <<sideVars, impl, zeroFails, scans, picks, schedLog, an, cache, ss, last>>

\* getPOTDData() rejects
FetchFails(c) ==
    /\ pc[c] = "fetch"
    /\ \E logOk \in LogOks :
         Settle(c, CatchOutcome(status, schedLog, "fetch", logOk))
    /\ run' = [run EXCEPT !.fault = "fetch"]
    /\ UNCHANGED <<sideVars, impl, zeroFails, scans, picks, nextId, an, cache, ss, calls, last>>

\* getPOTDData() resolves: tracker to analysis/50, analyzeWithGamblina is called
FetchReturns(c) ==
    /\ pc[c] = "fetch"
    /\ \E t \in Titles, n \in RunListings :
         /\ run' = [run EXCEPT !.title = t, !.listing = Listing(n)]
         /\ an' = AnalyzerCall(cache, Listing(n))
    /\ status' = updateScanStatus(updateScanStatus(status, "reddit", 40, "found"),
                                  "analysis", 50, "analyzing")
    /\ pc' = [pc EXCEPT ![c] = "analyze"]
    /\ UNCHANGED <<sideVars, impl, zeroFails, scans, picks, schedLog, isRunning, nextId, result,
                   cache, ss, calls, last>>

\* analyzeWithGamblina rejected, or resolved with nothing under the zero-picks check
AnalysisFails(c) ==
    /\ pc[c] = "analyze"
    /\ \/ /\ an.state = "threw"
          /\ \E logOk \in LogOks :
               Settle(c, CatchOutcome(status, schedLog, "analysis", logOk))
          /\ run' = [run EXCEPT !.fault = "analysis"]
       \/ /\ an.state = "returned"
          /\ zeroFails
          /\ an.out = <<>>
          /\ \E logOk \in LogOks :
               Settle(c, CatchOutcome(updateScanStatus(status, "analysis", 80, "extracted"),
                                      schedLog, "zero", logOk))
          /\ run' = [run EXCEPT !.fault = "zero", !.extracted = 0]
    /\ an' = NoAn
    /\ UNCHANGED <<sideVars, impl, zeroFails, scans, picks, nextId, cache, ss, calls, last>>

\* the keys of the analyzed picks, in the order handed to savePicksForScan
PickKeys(out) == [i \in 1..Len(out) |-> out[i].key]

\* analyzeWithGamblina resolved, local builds: tracker to database/90, saveScan and
\* savePicksForScan run on the synchronous driver, then caches, log, tracker, guard.
\* The legacy saveScan is a plain function, its exception enters the catch; the
\* database.js saveScan is async and not awaited, its rejection reaches nobody.
PersistLocal(c) ==
    /\ pc[c] = "analyze"
    /\ impl \in {"sqlite", "legacy"}
    /\ an.state = "returned"
    /\ ~(zeroFails /\ an.out = <<>>)
    /\ LET st == updateScanStatus(updateScanStatus(status, "analysis", 80, "extracted"),
                                  "database", 90, "saving")
           d == extractPOTDDate(run.title)
           items == PickKeys(an.out)
       IN \E ec \in ExistingCurrent(Db), fails \in SUBSET (1..Len(items)),
             logOk \in LogOks, catchLogOk \in LogOks :
          \E failAt \in 0..Len(SaveScanPlan(impl, Db, run.scanId, d, ec, Len(an.out))) :
            LET r1 == SaveScan(impl, Db, run.scanId, d, ec, failAt, Len(an.out))
                r2 == SavePicksForScan(impl, r1.db, run.scanId, items, fails)
            IN IF r1.threw /\ impl = "legacy"
               THEN /\ scans' = r1.db.scans
                    /\ picks' = r1.db.picks
                    /\ cache' = cache
                    /\ rcache' = rcache
                    /\ bscan' = bscan
                    /\ run' = [run EXCEPT !.picks = an.out, !.extracted = Len(an.out), !.fault = "saveScan"]
                    /\ Settle(c, CatchOutcome(st, schedLog, "saveScan", catchLogOk))
               ELSE IF r2.threw
               THEN /\ scans' = r2.db.scans
                    /\ picks' = r2.db.picks
                    /\ cache' = cache
                    /\ rcache' = rcache
                    /\ bscan' = bscan
                    /\ run' = [run EXCEPT !.picks = an.out, !.extracted = Len(an.out),
                                 !.fault = IF r1.threw THEN "saveScan" ELSE "savePicks"]
                    /\ Settle(c, CatchOutcome(st, schedLog, "savePicks", catchLogOk))
               ELSE /\ scans' = r2.db.scans
                    /\ picks' = r2.db.picks
                    /\ cache' = {}
                    /\ rcache' = {}
                    /\ bscan' = {}
                    /\ run' = [run EXCEPT !.picks = an.out, !.extracted = Len(an.out),
                                 !.fault = IF r1.threw THEN "saveScan"
                                           ELSE IF ~logOk THEN "log" ELSE "none"]
                    /\ Settle(c, FinishOutcome(st, schedLog, logOk, catchLogOk))
    /\ an' = NoAn
    /\ UNCHANGED <<stepVars, impl, zeroFails, nextId, ss, calls, last>>

\* analyzeWithGamblina resolved, hosted build: tracker to database/90, saveScan issues
\* its SELECT and is left behind, savePicksForScan issues its first INSERT
PersistHosted(c) ==
    /\ pc[c] = "analyze"
    /\ impl = "pg"
    /\ an.state = "returned"
    /\ ~(zeroFails /\ an.out = <<>>)
    /\ status' = updateScanStatus(updateScanStatus(status, "analysis", 80, "extracted"),
                                  "database", 90, "saving")
    /\ ss' = Append(ss, [id |-> run.scanId, date |-> extractPOTDDate(run.title),
                          total |-> Len(an.out), state |-> "select"])
    /\ run' = [run EXCEPT !.picks = an.out, !.extracted = Len(an.out), !.left = PickKeys(an.out)]
    /\ pc' = [pc EXCEPT ![c] = "persist"]
    /\ an' = NoAn
    /\ UNCHANGED <<sideVars, impl, zeroFails, scans, picks, schedLog, isRunning, nextId, result,
                   cache, calls, last>>

\* hosted build: one awaited pick INSERT settles; a failure is logged and swallowed
PgPickInsert(c) ==
    /\ pc[c] = "persist"
    /\ run.left # <<>>
    /\ \E ok \in BOOLEAN :
         IF ok
         THEN /\ picks' = ExecInsPick(Db, run.scanId, Head(run.left)).picks
              /\ run' = [run EXCEPT !.left = Tail(run.left)]
         ELSE /\ picks' = picks
              /\ run' = [run EXCEPT !.left = Tail(run.left),
                           !.fault = IF run.fault = "none" THEN "savePicks"
                                     ELSE run.fault]
    /\ UNCHANGED <<sideVars, impl, zeroFails, scans, schedLog, isRunning, status, nextId, pc,
                   result, an, cache, ss, calls, last>>

\* hosted build: savePicksForScan resolved; caches, log (no-op), tracker, guard
PgPersistDone(c) ==
    /\ pc[c] = "persist"
    /\ run.left = <<>>
    /\ cache' = {}
    /\ rcache' = {}
    /\ bscan' = {}
    /\ Settle(c, FinishOutcome(status, schedLog, TRUE, TRUE))
    /\ UNCHANGED <<stepVars, impl, zeroFails, scans, picks, nextId, run, an, ss, calls, last>>

\* the failure of a saveScan nobody awaits: an unhandled rejection
SaveScanRejected(k) ==
    /\ ss' = [ss EXCEPT ![k].state = "failed"]
    /\ run' = IF run.scanId = ss[k].id /\ run.fault = "none"
              THEN [run EXCEPT !.fault = "saveScan"] ELSE run
    /\ UNCHANGED <<scans, picks>>

\* hosted build: the next statement of the k-th saveScan left behind settles
PgSaveScanStep(k) ==
    /\ k \in DOMAIN ss
    /\ ss[k].state \in {"select", "update", "insert"}
    /\ \E ok \in BOOLEAN :
         IF \/ ~ok
            \/ /\ ss[k].state = "insert"
               /\ StmtRaises(Db, InsScan(ss[k].id, ss[k].date, ss[k].total))
         THEN SaveScanRejected(k)
         ELSE /\ run' = run
              /\ CASE ss[k].state = "select" ->
                        /\ \E ec \in ExistingCurrent(Db) :
                             ss' = [ss EXCEPT ![k].state =
                                      IF Len(SaveScanPlanDb(Db, ss[k].id, ss[k].date, ec,
                                                            ss[k].total)) = 2
                                      THEN "update" ELSE "insert"]
                        /\ UNCHANGED <<scans, picks>>
                   [] ss[k].state = "update" ->
                        /\ scans' = ExecDemote(Db).scans
                        /\ ss' = [ss EXCEPT ![k].state = "insert"]
                        /\ picks' = picks
                   [] ss[k].state = "insert" ->
                        /\ scans' = ExecInsScan(Db, ss[k].id, ss[k].date, ss[k].total).scans
                        /\ ss' = [ss EXCEPT ![k].state = "done"]
                        /\ picks' = picks
    /\ UNCHANGED <<sideVars, impl, zeroFails, schedLog, isRunning, status, nextId,
                   pc, result, an, cache, calls, last>>

Next ==
    \/ ManualRejected
    \/ \E c \in Triggers : RunScanBusy(c)
    \/ \E c \in Triggers : RunScanStart(c)
    \/ \E c \in Triggers : FetchFails(c)
    \/ \E c \in Triggers : FetchReturns(c)
    \/ AnBatchReply
    \/ AnBatchFail
    \/ AnDelayElapsed
    \/ \E c \in Triggers : AnalysisFails(c)
    \/ \E c \in Triggers : PersistLocal(c)
    \/ \E c \in Triggers : PersistHosted(c)
    \/ \E c \in Triggers : PgPickInsert(c)
    \/ \E c \in Triggers : PgPersistDone(c)
    \/ \E k \in 1..MaxCalls : PgSaveScanStep(k)

Spec == Init /\ [][Next]_vars

----------------------------------------------------------------------------
(* Step-wise scan: POST /api/scan/prepare and POST /api/scan/process-batch *)

\* replies of the Analysis Service to the batch of a step-wise request
StepReplies == {<<>>, <<Pick("k1", 80)>>}

\* titles of the threads POST /api/scan/prepare finds
StepTitles == {"POTD 11/8/24", "POTD 11/9/24"}

\* Math.ceil(n / batchSize)
StepBatches(n) == (n + batchSize - 1) \div batchSize

\* potdData.allComments.slice(start, end) of batch batchNum (1-based)
StepComments(comments, batchNum) ==
    SubSeq(comments, (batchNum - 1) * batchSize + 1,
           Min((batchNum - 1) * batchSize + batchSize, Len(comments)))

\* POST /api/scan/prepare: getPOTDData() resolved, the scan is parked in
\* global.pendingScan.  (A rejected getPOTDData() answers 500 and changes nothing.)
PrepareReturns ==
    /\ nextId <= MaxPrepares
    /\ \E t \in StepTitles, n \in 0..MaxStepComments :
         pending' = [scanId |-> nextId, title |-> t, comments |-> Listing(n),
                     numBatches |-> StepBatches(n)]
    /\ nextId' = nextId + 1
    /\ UNCHANGED <<req, bookmark, libVars, q, rcache, bscan, impl, zeroFails, scans, picks, schedLog,
                   isRunning, status, pc, result, run, an, cache, ss, calls, last>>

\* POST /api/scan/process-batch arrives on slot r: 400 for an unknown scan or an
\* invalid batch number, else analyzeWithGamblina is called on the batch's slice
\* (at most batchSize <= BATCH_SIZE comments: one analyzer batch)
ProcessBatchStart(r) ==
    /\ req[r].state = "idle"
    /\ calls < MaxReqs
    /\ \E scanId \in 1..(nextId - 1), batchNum \in 0..(MaxStepComments + 1) :
         IF \/ pending.scanId = 0
            \/ pending.scanId # scanId
            \/ batchNum < 1
            \/ batchNum > pending.numBatches
         THEN req' = [req EXCEPT ![r] = [NoReq EXCEPT !.res = "bad"]]
         ELSE req' = [req EXCEPT ![r] =
                        [NoReq EXCEPT !.kind = "endpoint", !.state = "analyze",
                                      !.scanId = scanId,
                                      !.title = pending.title, !.batchNum = batchNum,
                                      !.numBatches = pending.numBatches,
                                      !.an = AnalyzerCall(cache,
                                                StepComments(pending.comments, batchNum))]]
    /\ calls' = calls + 1
    /\ UNCHANGED <<pending, bookmark, libVars, q, rcache, bscan, impl, zeroFails, scans, picks, schedLog,
                   isRunning, status, nextId, pc, result, run, an, cache, ss, last>>

\* the Analysis Service call made for slot r returns and parses
StepBatchReply(r) ==
    /\ req[r].state = "analyze"
    /\ req[r].an.state = "call"
    /\ \E reply \in StepReplies :
         /\ req' = [req EXCEPT ![r].an = AnalyzerBatchReturned(req[r].an, reply)]
         /\ cache' = setCache(cache,
                              CacheKey(BatchComments(req[r].an.comments,
                                                     req[r].an.batchNum)),
                              reply)
    /\ UNCHANGED <<pending, bookmark, libVars, q, rcache, bscan, impl, zeroFails, scans, picks, schedLog,
                   isRunning, status, nextId, pc, result, run, an, ss, calls, last>>

\* the Analysis Service call made for slot r fails: the handler's catch answers 500
StepBatchFail(r) ==
    /\ req[r].state = "analyze"
    /\ req[r].an.state = "call"
    /\ req' = [req EXCEPT ![r] = [NoReq EXCEPT !.res = "error"]]
    /\ UNCHANGED <<pending, bookmark, libVars, q, rcache, bscan, impl, zeroFails, scans, picks, schedLog,
                   isRunning, status, nextId, pc, result, run, an, cache, ss, calls,
                   last>>

\* what the last batch adds to the handler: delete global.pendingScan, clearCache
StepFinalize(r) ==
    IF req[r].batchNum = req[r].numBatches
    THEN pending' = NoPending /\ cache' = {} /\ rcache' = {} /\ bscan' = {}
    ELSE UNCHANGED <<pending, cache, rcache, bscan>>

\* analyzeWithGamblina resolved for slot r, local builds: saveScan on the first
\* batch (not awaited), savePicksForScan, finalization on the last batch, response
StepPersistLocal(r) ==
    /\ req[r].kind = "endpoint"
    /\ req[r].state = "analyze"
    /\ req[r].an.state = "returned"
    /\ impl \in {"sqlite", "legacy"}
    /\ LET d == extractPOTDDate(req[r].title)
           items == PickKeys(req[r].an.out)
           first == req[r].batchNum = 1
       IN \E ec \in ExistingCurrent(Db), fails \in SUBSET (1..Len(items)) :
          \E failAt \in 0..(IF first
                            THEN Len(SaveScanPlan(impl, Db, req[r].scanId, d, ec, 0))
                            ELSE 0) :
            LET r1 == IF first
                      THEN SaveScan(impl, Db, req[r].scanId, d, ec, failAt, 0)
                      ELSE [db |-> Db, threw |-> FALSE]
                r2 == SavePicksForScan(impl, r1.db, req[r].scanId, items, fails)
            IN IF r1.threw /\ impl = "legacy"
               THEN /\ scans' = r1.db.scans
                    /\ picks' = r1.db.picks
                    /\ req' = [req EXCEPT ![r] = [NoReq EXCEPT !.res = "error"]]
                    /\ UNCHANGED <<pending, cache, rcache, bscan>>
               ELSE IF r2.threw
               THEN /\ scans' = r2.db.scans
                    /\ picks' = r2.db.picks
                    /\ req' = [req EXCEPT ![r] = [NoReq EXCEPT !.res = "error"]]
                    /\ UNCHANGED <<pending, cache, rcache, bscan>>
               ELSE /\ scans' = r2.db.scans
                    /\ picks' = r2.db.picks
                    /\ req' = [req EXCEPT ![r] =
                                 [NoReq EXCEPT !.res = "ok", !.batchNum = req[r].batchNum,
                                               !.numBatches = req[r].numBatches]]
                    /\ StepFinalize(r)
    /\ UNCHANGED <<bookmark, libVars, q, impl, zeroFails, schedLog, isRunning, status, nextId, pc,
                   result, run, an, ss, calls, last>>

\* analyzeWithGamblina resolved for slot r, hosted build: saveScan on the first batch
\* issues its SELECT and is left behind, savePicksForScan issues its first INSERT
StepPersistHosted(r) ==
    /\ req[r].kind = "endpoint"
    /\ req[r].state = "analyze"
    /\ req[r].an.state = "returned"
    /\ impl = "pg"
    /\ ss' = IF req[r].batchNum = 1
             THEN Append(ss, [id |-> req[r].scanId,
                              date |-> extractPOTDDate(req[r].title), total |-> 0,
                              state |-> "select"])
             ELSE ss
    /\ req' = [req EXCEPT ![r].state = "persist", ![r].out = req[r].an.out,
                          ![r].left = PickKeys(req[r].an.out), ![r].an = NoAn]
    /\ UNCHANGED <<pending, bookmark, libVars, q, rcache, bscan, impl, zeroFails, scans, picks, schedLog,
                   isRunning, status, nextId, pc, result, run, an, cache, calls, last>>

\* hosted build: one awaited pick INSERT of slot r settles; a failure is swallowed
StepPgPickInsert(r) ==
    /\ req[r].state = "persist"
    /\ req[r].left # <<>>
    /\ \E ok \in BOOLEAN :
         picks' = IF ok THEN ExecInsPick(Db, req[r].scanId, Head(req[r].left)).picks
                  ELSE picks
    /\ req' = [req EXCEPT ![r].left = Tail(req[r].left)]
    /\ UNCHANGED <<pending, bookmark, libVars, q, rcache, bscan, impl, zeroFails, scans, schedLog,
                   isRunning, status, nextId, pc, result, run, an, cache, ss, calls, last>>

\* hosted build: savePicksForScan resolved for slot r; finalization on the last
\* batch, response
StepPgDone(r) ==
    /\ req[r].kind = "endpoint"
    /\ req[r].state = "persist"
    /\ req[r].left = <<>>
    /\ req' = [req EXCEPT ![r] =
                 [NoReq EXCEPT !.res = "ok", !.batchNum = req[r].batchNum,
                               !.numBatches = req[r].numBatches]]
    /\ StepFinalize(r)
    /\ UNCHANGED <<bookmark, libVars, q, impl, zeroFails, scans, picks, schedLog, isRunning, status,
                   nextId, pc, result, run, an, ss, calls, last>>

NextStep ==
    \/ PrepareReturns
    \/ \E r \in Reqs : ProcessBatchStart(r)
    \/ \E r \in Reqs : StepBatchReply(r)
    \/ \E r \in Reqs : StepBatchFail(r)
    \/ \E r \in Reqs : StepPersistLocal(r)
    \/ \E r \in Reqs : StepPersistHosted(r)
    \/ \E r \in Reqs : StepPgPickInsert(r)
    \/ \E r \in Reqs : StepPgDone(r)
    \/ \E k \in 1..MaxReqs : PgSaveScanStep(k)

InitStep == Init /\ zeroFails = FALSE

SpecStep == InitStep /\ [][NextStep]_vars

\* Analysis Service calls in flight in the process
InFlight ==
    (IF an.state = "call" THEN 1 ELSE 0)
    + Cardinality({r \in Reqs : req[r].an.state = "call"})

\* C11: every trigger is under the single-flight guard, so at no time are two
\* Analysis Service calls in flight in the process
C11_OneServiceCallInFlight == InFlight <= 1

----------------------------------------------------------------------------
(* Step-wise scan of batchScanner.js: startBatchScan and processBatch; the scan is *)
(* parked in the cache under scan:<id>:comments, :metadata and :allPicks           *)

\* keys of the response entries the read endpoints put in the cache (the per-scan
\* detail entries scan:<id> are written and cleared like scans:recent)
ResponseKeys == {"picks:today", "stats:picks", "scans:recent"}

\* the record of bscan for a scan id: live = comments and metadata are present
ScanEntry(id) == {e \in bscan : e.scanId = id}

LiveEntry(id) == {e \in bscan : e.scanId = id /\ e.live}

\* a read endpoint answers from the store and caches the response; today's picks
\* are cached only when the current scan has picks
ReadEndpoint(key) ==
    /\ key \notin rcache
    /\ key = "picks:today"
          => \E row \in CurrentRows(scans) : RowsOfScan(picks, row.id) > 0
    /\ rcache' = rcache \cup {key}
    /\ UNCHANGED <<stepVars, bscan, impl, zeroFails, scans, picks, schedLog, isRunning,
                   status, nextId, pc, result, run, an, cache, ss, calls, last>>

\* startBatchScan: getPOTDData() resolved, comments and metadata go to the cache
StartBatchScanReturns ==
    /\ nextId <= MaxPrepares
    /\ \E t \in StepTitles, n \in 0..MaxStepComments :
         bscan' = bscan \cup {[scanId |-> nextId, live |-> TRUE, title |-> t,
                               comments |-> Listing(n),
                               numBatches |-> StepBatches(n), allPicks |-> <<>>,
                               done |-> {}]}
    /\ nextId' = nextId + 1
    /\ UNCHANGED <<stepVars, rcache, impl, zeroFails, scans, picks, schedLog, isRunning,
                   status, pc, result, run, an, cache, ss, calls, last>>

\* processBatch(scanId, batchNum) called on slot r: throws when the scan's entries
\* are not in the cache, else analyzeWithGamblina is called on the batch's slice
ScannerBatchStart(r) ==
    /\ req[r].state = "idle"
    /\ calls < MaxReqs
    /\ \E scanId \in 1..(nextId - 1), batchNum \in 1..(MaxStepComments + 1) :
         IF LiveEntry(scanId) = {}
         THEN req' = [req EXCEPT ![r] = [NoReq EXCEPT !.res = "error"]]
         ELSE LET e == CHOOSE e \in LiveEntry(scanId) : TRUE
              IN req' = [req EXCEPT ![r] =
                           [NoReq EXCEPT !.kind = "scanner", !.state = "analyze",
                                         !.scanId = scanId, !.title = e.title,
                                         !.batchNum = batchNum,
                                         !.numBatches = e.numBatches,
                                         !.an = AnalyzerCall(cache,
                                                   StepComments(e.comments, batchNum))]]
    /\ calls' = calls + 1
    /\ UNCHANGED <<pending, bookmark, libVars, q, rcache, bscan, impl, zeroFails, scans, picks,
                   schedLog, isRunning, status, nextId, pc, result, run, an, cache, ss,
                   last>>

\* the picks tallied so far under scan:<id>:allPicks ([] when the key is absent)
AllPicksCache(id) ==
    IF ScanEntry(id) = {} THEN <<>> ELSE (CHOOSE e \in ScanEntry(id) : TRUE).allPicks

\* the batch numbers of a scan whose processBatch call has returned (history)
DoneBatches(id) ==
    IF ScanEntry(id) = {} THEN {} ELSE (CHOOSE e \in ScanEntry(id) : TRUE).done

\* the tail of processBatch after savePicksForScan, cache part: the last batch
\* deletes the scan's entries and picks:today, another batch extends the tally
ScannerCacheTail(r, out) ==
    IF req[r].batchNum >= req[r].numBatches
    THEN /\ bscan' = bscan \ ScanEntry(req[r].scanId)
         /\ rcache' = rcache \ {"picks:today"}
    ELSE /\ bscan' = (bscan \ ScanEntry(req[r].scanId))
                     \cup {IF ScanEntry(req[r].scanId) = {}
                           THEN [scanId |-> req[r].scanId, live |-> FALSE, title |-> "",
                                 comments |-> <<>>, numBatches |-> 0,
                                 allPicks |-> PickKeys(out), done |-> {req[r].batchNum}]
                           ELSE [(CHOOSE e \in ScanEntry(req[r].scanId) : TRUE)
                                   EXCEPT !.allPicks = AllPicksCache(req[r].scanId) \o PickKeys(out),
                                          !.done = @ \cup {req[r].batchNum}]}
         /\ rcache' = rcache

\* the response processBatch resolves with
ScannerDone(r) ==
    [NoReq EXCEPT !.res = "ok", !.batchNum = req[r].batchNum,
                  !.numBatches = req[r].numBatches]

\* analyzeWithGamblina resolved for processBatch on slot r, local builds:
\* savePicksForScan when there are picks, saveScan (not awaited) and the cache
\* clean-up on the last batch
ScannerPersistLocal(r) ==
    /\ req[r].kind = "scanner"
    /\ req[r].state = "analyze"
    /\ req[r].an.state = "returned"
    /\ impl \in {"sqlite", "legacy"}
    /\ LET d == extractPOTDDate(req[r].title)
           out == req[r].an.out
           items == PickKeys(out)
           isLastBatch == req[r].batchNum >= req[r].numBatches
           totalPicks == Len(AllPicksCache(req[r].scanId)) + Len(out)
       IN \E fails \in SUBSET (1..Len(items)) :
            LET r1 == SavePicksForScan(impl, Db, req[r].scanId, items, fails)
            IN IF r1.threw
               THEN /\ scans' = r1.db.scans
                    /\ picks' = r1.db.picks
                    /\ req' = [req EXCEPT ![r] = [NoReq EXCEPT !.res = "error"]]
                    /\ UNCHANGED <<rcache, bscan>>
               ELSE \E ec \in ExistingCurrent(r1.db) :
                    \E failAt \in 0..(IF isLastBatch
                                      THEN Len(SaveScanPlan(impl, r1.db, req[r].scanId,
                                                            d, ec, totalPicks))
                                      ELSE 0) :
                      LET r2 == IF isLastBatch
                                THEN SaveScan(impl, r1.db, req[r].scanId, d, ec, failAt,
                                              totalPicks)
                                ELSE [db |-> r1.db, threw |-> FALSE]
                      IN /\ scans' = r2.db.scans
                         /\ picks' = r2.db.picks
                         /\ IF r2.threw /\ impl = "legacy"
                            THEN /\ req' = [req EXCEPT ![r] =
                                              [NoReq EXCEPT !.res = "error"]]
                                 /\ UNCHANGED <<rcache, bscan>>
                            ELSE /\ req' = [req EXCEPT ![r] = ScannerDone(r)]
                                 /\ ScannerCacheTail(r, out)
    /\ UNCHANGED <<pending, bookmark, libVars, q, impl, zeroFails, schedLog, isRunning, status,
                   nextId, pc, result, run, an, cache, ss, calls, last>>

\* hosted build, processBatch after its savePicksForScan (or with no picks): saveScan
\* on the last batch issues its SELECT and is left behind, cache clean-up, return
ScannerTailHosted(r, out) ==
    /\ ss' = IF req[r].batchNum >= req[r].numBatches
             THEN Append(ss, [id |-> req[r].scanId,
                              date |-> extractPOTDDate(req[r].title),
                              total |-> Len(AllPicksCache(req[r].scanId)) + Len(out),
                              state |-> "select"])
             ELSE ss
    /\ req' = [req EXCEPT ![r] = ScannerDone(r)]
    /\ ScannerCacheTail(r, out)

\* analyzeWithGamblina resolved for processBatch on slot r, hosted build:
\* savePicksForScan issues its first INSERT; with no picks the tail runs at once
ScannerPersistHosted(r) ==
    /\ req[r].kind = "scanner"
    /\ req[r].state = "analyze"
    /\ req[r].an.state = "returned"
    /\ impl = "pg"
    /\ IF req[r].an.out = <<>>
       THEN ScannerTailHosted(r, <<>>)
       ELSE /\ req' = [req EXCEPT ![r].state = "persist", ![r].out = req[r].an.out,
                                  ![r].left = PickKeys(req[r].an.out), ![r].an = NoAn]
            /\ UNCHANGED <<ss, rcache, bscan>>
    /\ UNCHANGED <<pending, bookmark, libVars, q, impl, zeroFails, scans, picks, schedLog,
                   isRunning, status, nextId, pc, result, run, an, cache, calls, last>>

\* hosted build: savePicksForScan resolved for processBatch on slot r
ScannerPgDone(r) ==
    /\ req[r].kind = "scanner"
    /\ req[r].state = "persist"
    /\ req[r].left = <<>>
    /\ ScannerTailHosted(r, req[r].out)
    /\ UNCHANGED <<pending, bookmark, libVars, q, impl, zeroFails, scans, picks, schedLog,
                   isRunning, status, nextId, pc, result, run, an, cache, calls, last>>

NextBatch ==
    \/ StartBatchScanReturns
    \/ \E key \in ResponseKeys : ReadEndpoint(key)
    \/ \E r \in Reqs : ScannerBatchStart(r)
    \/ \E r \in Reqs : StepBatchReply(r)
    \/ \E r \in Reqs : StepBatchFail(r)
    \/ \E r \in Reqs : ScannerPersistLocal(r)
    \/ \E r \in Reqs : ScannerPersistHosted(r)
    \/ \E r \in Reqs : StepPgPickInsert(r)
    \/ \E r \in Reqs : ScannerPgDone(r)
    \/ \E k \in 1..MaxReqs : PgSaveScanStep(k)

SpecBatch == InitStep /\ [][NextBatch]_vars

\* C17: when a scan completes successfully, through runScan or through the last
\* batch of a step-wise scan, the cache holds no response entry (today's picks,
\* stats, recent scans, scan detail) at the moment completion is reported
C17_CompletionInvalidates ==
    [][(\/ \E c \in Triggers : pc[c] # "idle" /\ result'[c] = "success"
        \/ \E r \in Reqs : /\ req[r].state # "idle"
                           /\ req'[r].res = "ok"
                           /\ req'[r].batchNum >= req'[r].numBatches)
       => rcache' = {}]_vars

----------------------------------------------------------------------------
(* Properties of the pipeline *)

\* outcomes with which a runScan call that took the guard settles
Settled == {"success", "failure", "threw"}

\* C1: at most one runScan call is inside the pipeline at any time, and a runScan
\* call made while isRunning answers 'Scan already running' at once: it changes
\* nothing but the caller's result and no pipeline step is taken for it
C1_SingleFlight ==
    [][/\ Cardinality({c \in Triggers : pc'[c] # "idle"}) <= 1
       /\ \A c \in Triggers : pc'[c] # "idle" => isRunning' /\ run'.owner = c
       /\ (calls' # calls /\ isRunning)
          => /\ \E c \in Triggers : result' = [result EXCEPT ![c] = "busy"]
             /\ UNCHANGED <<scans, picks, schedLog, isRunning, status, nextId, pc, run,
                            an, cache, ss>>]_vars

C1_Witness ==
    \E c, d \in Triggers : c # d /\ pc[c] = "analyze" /\ result[d] = "busy"

\* C2: the guard is released on every exit path: whenever no runScan call is inside
\* the pipeline, isRunning is false
C2_GuardReleased == (\A c \in Triggers : pc[c] = "idle") => ~isRunning

\* C6: runScan never propagates an exception, and a run in which any stage failed
\* resolves with success:false
C6_NeverPropagates ==
    \A c \in Triggers :
       /\ result[c] # "threw"
       /\ (run.owner = c /\ pc[c] = "idle" /\ result[c] \in Settled /\ run.fault # "none")
          => result[c] = "failure"

\* C7: a storage error raised by saveScan or savePicksForScan during a run makes the
\* run fail: it returns success:false, the tracker carries the error and is not at
\* complete/100
C7_StorageErrorFailsRun ==
    \A c \in Triggers :
       (/\ run.owner = c
        /\ pc[c] = "idle"
        /\ result[c] \in Settled
        /\ run.fault \in {"saveScan", "savePicks"})
       => /\ result[c] = "failure"
          /\ status.error # "null"
          /\ status.step # "complete"
          /\ status.progress # 100

\* C10: a run that ended in failure left the scan records, their is_current flags
\* and the pick records exactly as they were when the run began
C10_FailedRunFrame ==
    \A c \in Triggers :
       (run.owner = c /\ pc[c] = "idle" /\ result[c] = "failure") => Db = run.pre

\* C12: a run request refused as busy (by runScan's guard or by POST /api/scan's
\* tracker test) leaves the run in progress alone: the tracker, isRunning (true), the
\* scans, the picks, the cache, the operational log and the run's own state are as
\* they were
C12_BusyRequestFrame ==
    [][(\/ calls' # calls /\ isRunning
        \/ result'["manual"] = "rejected" /\ result["manual"] # "rejected")
       => /\ isRunning /\ isRunning'
          /\ UNCHANGED <<status, scans, picks, cache, rcache, schedLog, run, an, pc,
                         ss, nextId>>]_vars

C12_Witness ==
    /\ result["manual"] = "rejected"
    /\ pc["timer"] = "analyze"
    /\ an.state = "call"
    /\ status.progress = 50

\* C13: in the list analyzeWithGamblina returns, every item's rank is its 1-based
\* position in that list (its position after the sort by confidence descending)
C13_RankIsPosition ==
    an.state = "returned" => \A i \in 1..Len(an.out) : an.out[i].rank = i

\* the memo entries of cache c for the batch the analyzer activation a is at
MemoOf(c, a) == {e \in c : e.key = CacheKey(BatchComments(a.comments, a.batchNum))}

\* the extractions the memo c holds for the batches i.. of a listing, concatenated
RECURSIVE MemoPicks(_, _, _)
MemoPicks(c, comments, i) ==
    IF i >= NumBatches(Len(comments)) THEN <<>>
    ELSE LET hit == {e \in c : e.key = CacheKey(BatchComments(comments, i))}
         IN (IF hit = {} THEN <<>> ELSE (CHOOSE e \in hit : TRUE).picks)
            \o MemoPicks(c, comments, i + 1)

\* C14: a batch whose content an earlier analyzeWithGamblina call has analyzed is
\* not sent to the Analysis Service again: every answered batch is memoized under
\* its content, the Analysis Service is only called for a batch that has no memo
\* entry, and a call that returns has taken every batch's extraction from the memo
\* or put it there
C14_CacheShortCircuit ==
    /\ [](an.state = "call" => MemoOf(cache, an) = {})
    /\ []((an.state = "returned" /\ an.comments # <<>>)
          => an.allPicks = MemoPicks(cache, an.comments, 0))
    /\ [][/\ (an.state = "call" /\ an'.state \in {"delay", "returned"})
             => MemoOf(cache', an) # {}
          /\ \A e \in cache : e \in cache']_vars

C14_Witness ==
    /\ calls >= 2
    /\ an.state = "returned"
    /\ an.calls = 0
    /\ Len(an.comments) > BATCH_SIZE
    /\ an.allPicks # <<>>

\* the analyzer's batches i.. of a listing, concatenated in batch order
RECURSIVE ConcatBatches(_, _)
ConcatBatches(comments, i) ==
    IF i >= NumBatches(Len(comments)) THEN <<>>
    ELSE BatchComments(comments, i) \o ConcatBatches(comments, i + 1)

\* the step-wise endpoint's batches i.. (1-based) of a listing, concatenated
RECURSIVE ConcatStepBatches(_, _)
ConcatStepBatches(comments, i) ==
    IF i > StepBatches(Len(comments)) THEN <<>>
    ELSE StepComments(comments, i) \o ConcatStepBatches(comments, i + 1)

\* C15: for a list of N > 0 comments and batch size B the batches are slices of 1..B
\* items, there are exactly ceil(N/B) of them, and their concatenation in batch
\* order is the input list; for the analyzer's batches (B = BATCH_SIZE) and for the
\* step-wise endpoint's batches (B = batchSize)
C15_Partitioning ==
    LET list == an.comments
        N == Len(list)
    IN N > 0 =>
         /\ NumBatches(N) * BATCH_SIZE >= N
         /\ (NumBatches(N) - 1) * BATCH_SIZE < N
         /\ \A i \in 0..(NumBatches(N) - 1) :
               Len(BatchComments(list, i)) \in 1..BATCH_SIZE
         /\ ConcatBatches(list, 0) = list
         /\ StepBatches(N) * batchSize >= N
         /\ (StepBatches(N) - 1) * batchSize < N
         /\ \A i \in 1..StepBatches(N) : Len(StepComments(list, i)) \in 1..batchSize
         /\ ConcatStepBatches(list, 1) = list

C15_Witness ==
    /\ an.state = "returned"
    /\ Len(an.comments) = 2 * BATCH_SIZE + 1
    /\ an.batchNum = 3
    /\ an.calls = 3

\* position of a tracker step in the order of a run
StepRank(step) ==
    CASE step = "idle" -> 0
      [] step = "reddit" -> 1
      [] step = "analysis" -> 2
      [] step = "database" -> 3
      [] step = "complete" -> 4

\* C16: within one run the tracker's steps only move forward (fetching, analyzing,
\* persisting, complete) with non-decreasing progress, and complete/100 is written
\* only after saveScan and savePicksForScan of that run have finished successfully
C16_TrackerOrder ==
    [][/\ run'.scanId = run.scanId
          => /\ StepRank(status'.step) >= StepRank(status.step)
             /\ status'.progress >= status.progress
       /\ (status'.step = "complete" /\ status.step # "complete")
          => /\ status'.progress = 100
             /\ \E row \in scans' : row.id = run'.scanId
             /\ run'.fault \notin {"saveScan", "savePicks"}]_vars

\* C18: whenever the analyzer yields zero items for the whole scan, the run is
\* reported as failed with the error 'No picks extracted from comments' and no scan
\* row of the run is persisted
C18_ZeroPicksFails ==
    \A c \in Triggers :
       (run.owner = c /\ pc[c] = "idle" /\ result[c] \in Settled /\ run.extracted = 0)
       => /\ result[c] = "failure"
          /\ status.error = "zero"
          /\ ~\E row \in scans : row.id = run.scanId

\* C20: the bookmark of the incremental fetch is written at the end of every
\* successful run: after a runScan that succeeded on a listing with items, the
\* stored bookmark is the id of an item of that run's listing
C20_BookmarkFollowsRun ==
    \A c \in Triggers :
       (run.owner = c /\ pc[c] = "idle" /\ result[c] = "success" /\ run.listing # <<>>)
       => \E i \in 1..Len(run.listing) : bookmark = run.listing[i]

\* C33: a memo entry written after a successful Analysis Service call stays
\* retrievable within its TTL, so that a later run over the same comments finds it:
\* the step in which a runScan call completes successfully removes no memo entry
C33_MemoSurvivesRun ==
    [][\A c \in Triggers :
         (pc[c] # "idle" /\ result'[c] = "success" /\ run.listing # <<>>)
         => \A j \in 0..(NumBatches(Len(run.listing)) - 1) :
              Cached(cache', CacheKey(BatchComments(run.listing, j))) # {}]_vars

\* C35: every pick row belongs to an existing scan row: no pick is stored under a
\* scan id whose scan row is not in the store
C35_PicksHaveScanRow ==
    \A x \in DOMAIN picks : \E row \in scans : row.id = x[1]

\* C36: wherever another task can observe the state, the tracker's scanning flag
\* is true exactly when the scheduler's isRunning flag is true
C36_ScanningIffRunning == status.scanning <=> isRunning

\* a manual request was turned away by the tracker while the timer's run, which
\* holds the guard, waits for the Analysis Service
C36_Witness ==
    /\ pc["timer"] = "analyze"
    /\ an.state = "call"
    /\ result["manual"] = "rejected"
    /\ isRunning
    /\ status.scanning

\* C37: once a scan has finished, its scan row's total_picks is the number of pick
\* rows stored under its scan id: after a runScan call that returned success, and
\* in the step that answers the last batch of a step-wise scan
C37_TotalPicksIsRowCount ==
    /\ [](\A c \in Triggers :
            (run.owner = c /\ pc[c] = "idle" /\ result[c] = "success")
            => \A row \in scans :
                 row.id = run.scanId => row.total = RowsOfScan(picks, run.scanId))
    /\ [][\A r \in Reqs :
            (/\ req[r].state # "idle"
             /\ req'[r].res = "ok"
             /\ req'[r].batchNum >= req'[r].numBatches)
            => \A row \in scans' :
                 row.id = req[r].scanId
                 => row.total = RowsOfScan(picks', req[r].scanId)]_vars

\* C38: a step-wise scan is finalized (scan row saved, cached comments and metadata
\* discarded) only after every batch 1..numBatches has been processed: the call
\* that finalizes is the only one whose batch may still be outstanding
C38_FinalizeAfterAllBatches ==
    [][\A r \in Reqs :
         (/\ req[r].kind = "scanner"
          /\ req[r].state # "idle"
          /\ req'[r].res = "ok"
          /\ LiveEntry(req[r].scanId) # {}
          /\ LiveEntry(req[r].scanId)' = {})
         => \A b \in 1..req[r].numBatches :
              b = req[r].batchNum \/ b \in DoneBatches(req[r].scanId)]_vars

----------------------------------------------------------------------------
(* Incremental-fetch bookmark (scanState.js): saveScanState, getLastScanState,
   filterNewComments, driven one call at a time *)

MaxIds == 3
MaxListing == 3

\* the fresh listings handed to filterNewComments: comment ids, newest first
FreshListings == UNION {[1..n -> 1..MaxIds] : n \in 0..MaxListing}

\* allComments.findIndex(c => c.id === id), counted from 1; 0 stands for -1
findIndex(allComments, id) ==
    IF \E i \in 1..Len(allComments) : allComments[i] = id
    THEN CHOOSE i \in 1..Len(allComments) :
           /\ allComments[i] = id
           /\ \A j \in 1..(i - 1) : allComments[j] # id
    ELSE 0

\* getLastScanState: the row of scan_state when there is one, else the module's
\* object; the null state when the SELECT raises
getLastScanState(row, mem, dbOk) ==
    IF ~dbOk THEN 0 ELSE IF row # 0 THEN row ELSE mem

\* a mutant of filterNewComments: the slice keeps the bookmarked item
filterNewCommentsInclusive(allComments, lastCommentId) ==
    IF lastCommentId = 0 \/ findIndex(allComments, lastCommentId) = 0
    THEN allComments
    ELSE SubSeq(allComments, 1, findIndex(allComments, lastCommentId))

\* filterNewComments, given the state getLastScanState returned
filterNewComments(allComments, lastCommentId) ==
    IF lastCommentId = 0
    THEN allComments
    ELSE LET lastIndex == findIndex(allComments, lastCommentId)
         IN IF lastIndex = 0
            THEN allComments
            ELSE SubSeq(allComments, 1, lastIndex - 1)

otherVars ==
    <<pipelineVars, impl, scans, picks, nextId, last, pending, req, rcache, bscan, q, rd,
      rl>>

\* saveScanState(commentId): the module's object first, then INSERT OR REPLACE
DrvSaveScanState ==
    /\ \E id \in 1..MaxIds, dbOk \in BOOLEAN :
         /\ scanState' = id
         /\ bookmark' = IF dbOk THEN id ELSE bookmark
         /\ ret' = [fn |-> "saveScanState", threw |-> ~dbOk]
    /\ UNCHANGED <<otherVars, nc>>

\* filterNewComments(allComments)
DrvFilterNewComments ==
    /\ \E allComments \in FreshListings, dbOk \in BOOLEAN :
         LET state == getLastScanState(bookmark, scanState, dbOk)
         IN /\ scanState' = IF dbOk /\ bookmark # 0 THEN bookmark ELSE scanState
            /\ ret' = [fn |-> "filterNewComments", all |-> allComments,
                       state |-> state,
                       out |-> filterNewComments(allComments, state)]
    /\ UNCHANGED <<otherVars, bookmark, nc>>

\* the process starts again: the module's object is null, the table is kept
ProcessRestart ==
    /\ scanState # 0
    /\ scanState' = 0
    /\ UNCHANGED <<otherVars, bookmark, ret, nc>>

NextBookmark == DrvSaveScanState \/ DrvFilterNewComments \/ ProcessRestart

SpecBookmark == InitAnalyze /\ [][NextBookmark]_vars

\* C21: filterNewComments returns the whole listing when the state it reads has no
\* bookmark or the bookmarked id is not in the listing; otherwise it returns exactly
\* the items before the first occurrence of the bookmarked id, in their order
C21_FilterNewComments ==
    ret.fn = "filterNewComments" =>
      LET Occ == {i \in 1..Len(ret.all) : ret.all[i] = ret.state}
      IN IF ret.state = 0 \/ Occ = {}
         THEN ret.out = ret.all
         ELSE \E k \in Occ : /\ \A j \in Occ : k <= j
                             /\ Len(ret.out) = k - 1
                             /\ \A i \in 1..(k - 1) : ret.out[i] = ret.all[i]

C21_Witness ==
    /\ ret.fn = "filterNewComments"
    /\ Len(ret.all) = MaxListing
    /\ ret.all[2] = ret.state
    /\ ret.all[3] = ret.state
    /\ ret.all[1] # ret.state
    /\ Len(ret.out) = 1

\* C22: within one analyzeWithGamblina call at most one Analysis Service request is
\* outstanding, and a request is issued only when none is outstanding and the request
\* of every earlier batch of the listing has returned (its reply is in the memo)
C22_BatchesSequential ==
    /\ [](an.inflight \in {0, 1} /\ (an.inflight = 1 <=> an.state = "call"))
    /\ [][an'.inflight > an.inflight
          => /\ an.inflight = 0
             /\ an'.inflight = 1
             /\ an'.batchNum < NumBatches(Len(an'.comments))
             /\ \A j \in 0..(an'.batchNum - 1) :
                  Cached(cache', CacheKey(BatchComments(an'.comments, j))) # {}]_vars

C22_Witness ==
    /\ an.state = "call"
    /\ an.inflight = 1
    /\ an.batchNum = 2
    /\ an.calls = 3

\* C23: failed batches are not cached: an entry enters the memo only when the
\* outstanding Analysis Service call returned and parsed, under the fingerprint of
\* exactly that batch and holding exactly that reply; a failing call changes no entry
C23_FailedBatchNotCached ==
    [][/\ \A e \in cache' \ cache :
            /\ an.state = "call"
            /\ an'.state \in {"delay", "returned"}
            /\ e.key = CacheKey(BatchComments(an.comments, an.batchNum))
            /\ an'.allPicks = an.allPicks \o e.picks
       /\ (an.state = "call" /\ an'.state = "threw") => cache' = cache]_vars

C23_Witness ==
    /\ an.state = "threw"
    /\ an.batchNum = 1
    /\ Cached(cache, CacheKey(BatchComments(an.comments, 0))) # {}
    /\ Cached(cache, CacheKey(BatchComments(an.comments, 1))) = {}

\* C24: the list analyzeWithGamblina returns is ordered by confidence, highest first,
\* and items of equal confidence keep their accumulation order (rank holds the
\* position of an item in the accumulated list)
C24_StableByConfidence ==
    an.state = "returned" =>
      \A i, j \in 1..Len(an.out) :
         i < j => /\ an.out[i].confidence >= an.out[j].confidence
                  /\ an.out[i].confidence = an.out[j].confidence
                     => an.out[i].rank < an.out[j].rank

C24_Witness ==
    /\ an.state = "returned"
    /\ an.calls = 2
    /\ Len(an.out) = 2
    /\ an.out[1].confidence = an.out[2].confidence
    /\ an.out[1].rank = 1

\* C25: every accumulated extraction appears exactly once in the returned list, whose
\* length is the sum of the batches' extraction counts, and an extraction whose
\* author matches no raw comment is kept with score 0 and an empty source text
C25_NothingDropped ==
    (an.state = "returned" /\ an.comments # <<>>) =>
      LET acc == MemoPicks(cache, an.comments, 0)
      IN /\ Len(an.out) = Len(acc)
         /\ \A i \in 1..Len(acc) :
              \E j \in 1..Len(an.out) :
                 /\ an.out[j].rank = i
                 /\ an.out[j].key = acc[i].key
                 /\ \A k \in 1..Len(an.out) : an.out[k].rank = i => k = j
         /\ \A j \in 1..Len(an.out) :
              (\A i \in 1..Len(an.comments) :
                  Author(an.comments[i]) # an.out[j].comment_author)
              => an.out[j].comment_score = 0 /\ an.out[j].comment_body = ""

C25_Witness ==
    /\ an.state = "returned"
    /\ Len(an.comments) = BATCH_SIZE + 1
    /\ Len(an.out) = 2
    /\ an.out[1].comment_score > 0
    /\ an.out[2].key = "k2"
    /\ an.out[2].comment_score = 0
    /\ an.out[2].comment_body = ""

\* C31: a call of analyzeWithGamblina on an empty list returns the empty result at
\* once: no Analysis Service call, no memo lookup or write, no inter-batch delay
C31_EmptyInputReturns ==
    [][(calls' = calls + 1 /\ an'.comments = <<>>)
       => /\ an'.state = "returned"
          /\ an'.out = <<>>
          /\ an'.calls = 0
          /\ an'.inflight = 0
          /\ an'.lookups = 0
          /\ cache' = cache]_vars

\* an empty call has returned while the memo holds entries of an earlier call
C31_Witness ==
    /\ calls = 2
    /\ an.state = "returned"
    /\ an.comments = <<>>
    /\ an.lookups = 0
    /\ cache # {}

----------------------------------------------------------------------------
(* Cache module: getCache, setCache, warmCache over a NodeCache instance, and a
   read-through endpoint *)

\* const defaultTTL = parseInt(process.env.CACHE_TTL_PICKS) || 900
defaultTTL == 900

Names == {"TODAY_PICKS", "PICK_STATS", "RECENT_SCANS", "CHAT_HISTORY", "SCHEDULER_STATUS"}

CACHE_KEYS ==
    [n \in Names |->
        CASE n = "TODAY_PICKS"      -> "picks:today"
          [] n = "PICK_STATS"       -> "stats:picks"
          [] n = "RECENT_SCANS"     -> "scans:recent"
          [] n = "CHAT_HISTORY"     -> "chat:history"
          [] n = "SCHEDULER_STATUS" -> "scheduler:status"]

CACHE_TTL ==
    [n \in Names |->
        CASE n = "TODAY_PICKS"      -> 900
          [] n = "PICK_STATS"       -> 1800
          [] n = "RECENT_SCANS"     -> 3600
          [] n = "CHAT_HISTORY"     -> 300
          [] n = "SCHEDULER_STATUS" -> 60]

\* the keys callers pass: the namespaces' keys and a batch memo key
CallerKeys == ResponseKeys \cup {"gamblina:batch"}

\* the ttl arguments callers pass: 0 stands for an omitted ttl (null)
CallerTtls == {0, 3600}

\* ttl || CACHE_TTL[key] || defaultTTL: CACHE_TTL is indexed by the key string
EffectiveTtl(key, ttl) ==
    IF ttl # 0 THEN ttl
    ELSE IF key \in DOMAIN CACHE_TTL THEN CACHE_TTL[key]
    ELSE defaultTTL

\* cache.set(key, value, ttl) of the store
NodeSet(store, key, val, ttl) ==
    {e \in store : e.key # key} \cup {[key |-> key, val |-> val, ttl |-> ttl]}

\* a getCache without the try/catch: the store's error reaches the caller
GetCacheCallRethrows(store, key, storeOk) ==
    IF ~storeOk THEN [out |-> "null", threw |-> TRUE]
    ELSE IF \E e \in store : e.key = key THEN [out |-> "hit", threw |-> FALSE]
    ELSE [out |-> "null", threw |-> FALSE]

\* getCache(key): the value, or null on a miss and on an error of cache.get
GetCacheCall(store, key, storeOk) ==
    IF storeOk /\ \E e \in store : e.key = key
    THEN [out |-> "hit", threw |-> FALSE]
    ELSE [out |-> "null", threw |-> FALSE]

\* setCache(key, value, ttl = null): cache.set's result, or false on its error
SetCacheCall(store, key, val, ttl, storeOk) ==
    IF storeOk
    THEN [nc |-> NodeSet(store, key, val, EffectiveTtl(key, ttl)), out |-> TRUE,
          threw |-> FALSE]
    ELSE [nc |-> store, out |-> FALSE, threw |-> FALSE]

\* the read-through functions warmCache calls, in its order
Providers == <<"TODAY_PICKS", "PICK_STATS", "RECENT_SCANS">>

\* getPickStats and getAllScans are async functions in database.js; every provider
\* of the legacy build is synchronous
IsAsync(v, name) == v # "legacy" /\ name # "TODAY_PICKS"

\* the call of the provider raises inside warmCache's try block: a synchronous
\* provider whose statement fails, and getTodaysPicks on the hosted build
ProviderThrows(v, name, fails) ==
    \/ name \in fails /\ ~IsAsync(v, name)
    \/ name = "TODAY_PICKS" /\ v = "pg"

\* warmCache from provider i on: one try block around all the calls
RECURSIVE WarmFrom(_, _, _, _, _)
WarmFrom(v, store, i, fails, invoked) ==
    IF i > Len(Providers)
    THEN [nc |-> store, invoked |-> invoked, caught |-> FALSE]
    ELSE LET name == Providers[i]
         IN IF ProviderThrows(v, name, fails)
            THEN [nc |-> store, invoked |-> invoked \cup {name}, caught |-> TRUE]
            ELSE WarmFrom(v,
                          SetCacheCall(store, CACHE_KEYS[name],
                                       IF IsAsync(v, name) THEN "promise" ELSE "rows",
                                       CACHE_TTL[name], TRUE).nc,
                          i + 1, fails, invoked \cup {name})

cacheOtherVars == <<otherVars, bookmark, scanState>>

\* a caller invokes getCache(key)
DrvGetCache ==
    /\ \E key \in CallerKeys, storeOk \in BOOLEAN :
         LET r == GetCacheCall(nc, key, storeOk)
         IN ret' = [fn |-> "getCache", key |-> key, storeOk |-> storeOk,
                    out |-> r.out, threw |-> r.threw]
    /\ UNCHANGED <<cacheOtherVars, nc>>

\* a caller invokes setCache(key, value, ttl)
DrvSetCache ==
    /\ \E key \in CallerKeys, ttl \in CallerTtls, storeOk \in BOOLEAN :
         LET r == SetCacheCall(nc, key, "rows", ttl, storeOk)
         IN /\ nc' = r.nc
            /\ ret' = [fn |-> "setCache", key |-> key, ttl |-> ttl,
                       storeOk |-> storeOk, out |-> r.out, threw |-> r.threw]
    /\ UNCHANGED cacheOtherVars

\* GET /api/stats: answer from the cache, or compute, store and answer
DrvReadStats ==
    /\ \E getOk \in BOOLEAN, setOk \in BOOLEAN :
         LET key == CACHE_KEYS["PICK_STATS"]
             g == GetCacheCall(nc, key, getOk)
             st == SetCacheCall(nc, key, "rows", CACHE_TTL["PICK_STATS"], setOk)
         IN IF g.threw
            THEN /\ nc' = nc
                 /\ ret' = [fn |-> "readStats", getOk |-> getOk, status |-> 500,
                            out |-> "error"]
            ELSE IF g.out = "hit"
            THEN /\ nc' = nc
                 /\ ret' = [fn |-> "readStats", getOk |-> getOk, status |-> 200,
                            out |-> "cached"]
            ELSE /\ nc' = st.nc
                 /\ ret' = [fn |-> "readStats", getOk |-> getOk,
                            status |-> IF st.threw THEN 500 ELSE 200,
                            out |-> IF st.threw THEN "error" ELSE "fresh"]
    /\ UNCHANGED cacheOtherVars

\* the TTL of an entry runs out
TtlExpires ==
    /\ \E e \in nc : nc' = nc \ {e}
    /\ UNCHANGED <<cacheOtherVars, ret>>

\* setTimeout(() => warmCache(database), 2000)
DrvWarmCache ==
    /\ \E fails \in SUBSET {Providers[i] : i \in 1..Len(Providers)} :
         LET r == WarmFrom(impl, nc, 1, fails, {})
         IN /\ nc' = r.nc
            /\ ret' = [fn |-> "warmCache", fails |-> fails, invoked |-> r.invoked,
                       caught |-> r.caught, threw |-> FALSE]
    /\ UNCHANGED cacheOtherVars

NextCache == DrvGetCache \/ DrvSetCache \/ DrvReadStats \/ TtlExpires \/ DrvWarmCache

SpecCache == InitStore /\ [][NextCache]_vars

\* C26: failures of single providers in warmCache are isolated: when a provider
\* fails the other providers are still invoked and their keys populated, and
\* warmCache itself does not throw
C26_WarmIsolated ==
    ret.fn = "warmCache" =>
      /\ ~ret.threw
      /\ ret.invoked = {Providers[i] : i \in 1..Len(Providers)}
      /\ \A i \in 1..Len(Providers) :
           Providers[i] \notin ret.fails
           => \E e \in nc : e.key = CACHE_KEYS[Providers[i]]

\* C27: getCache and setCache never throw: when the store raises, getCache returns
\* a miss (null) and setCache returns false and stores nothing, and the calling
\* endpoint goes on as on a cache miss
C27_CacheNeverThrows ==
    /\ [](/\ ret.fn \in {"getCache", "setCache"} => ~ret.threw
          /\ (ret.fn = "getCache" /\ ~ret.storeOk) => ret.out = "null"
          /\ (ret.fn = "setCache" /\ ~ret.storeOk) => ret.out = FALSE
          /\ (ret.fn = "readStats" /\ ~ret.getOk)
             => ret.status = 200 /\ ret.out = "fresh")
    /\ [][(ret'.fn = "setCache" /\ ret' # ret /\ ~ret'.storeOk) => nc' = nc]_vars

C27_Witness ==
    /\ ret.fn = "readStats"
    /\ ~ret.getOk
    /\ ret.out = "fresh"
    /\ \E e \in nc : e.key = "stats:picks" /\ e.ttl = 3600

\* C28: setCache(key, value) without a ttl, for the key of a named namespace, stores
\* the entry with that namespace's default TTL
C28_NamespaceTtl ==
    (ret.fn = "setCache" /\ ret.ttl = 0 /\ ret.out = TRUE) =>
      \A n \in Names :
         CACHE_KEYS[n] = ret.key
         => \E e \in nc : e.key = ret.key /\ e.ttl = CACHE_TTL[n]

----------------------------------------------------------------------------
(* analyzeBatch: from the content of the Analysis Service's reply to the picks *)

MaxContent == 4

\* the content is a sequence of tokens: brackets, a comma, a scalar JSON value "1",
\* an object without a picks member "o", the wrapper of an object with a picks
\* member "{" ... "}", prose "x" and a markdown fence "F"
Tokens == {"[", "]", ",", "1", "o", "{", "}", "x", "F"}

\* the two analyzeBatch of the repository
Builds == {"part_003", "gamblina.js"}

\* content.replace(/```json\n?/gi, '').replace(/```\n?/g, '').trim()
StripFences(content) == SelectSeq(content, LAMBDA t : t # "F")

\* JSON.parse accepts the text: the position after the value that starts at i,
\* or 0 when no value starts there
RECURSIVE ParseValue(_, _), ParseElems(_, _)
ParseValue(s, i) ==
    IF i > Len(s) THEN 0
    ELSE CASE s[i] \in {"1", "o"} -> i + 1
           [] s[i] = "{" ->
                LET j == ParseValue(s, i + 1)
                IN IF j # 0 /\ j <= Len(s) /\ s[j] = "}" THEN j + 1 ELSE 0
           [] s[i] = "[" ->
                IF i + 1 <= Len(s) /\ s[i + 1] = "]" THEN i + 2
                ELSE ParseElems(s, i + 1)
           [] OTHER -> 0

ParseElems(s, i) ==
    LET j == ParseValue(s, i)
    IN IF j = 0 \/ j > Len(s) THEN 0
       ELSE IF s[j] = "]" THEN j + 1
       ELSE IF s[j] = "," THEN ParseElems(s, j + 1)
       ELSE 0

IsJson(s) == s # <<>> /\ ParseValue(s, 1) = Len(s) + 1

\* content.indexOf('[') and content.lastIndexOf(']'), counted from 1; 0 for -1
IndexOf(s, t) ==
    IF \E i \in 1..Len(s) : s[i] = t
    THEN CHOOSE i \in 1..Len(s) : s[i] = t /\ \A j \in 1..(i - 1) : s[j] # t
    ELSE 0

LastIndexOf(s, t) ==
    IF \E i \in 1..Len(s) : s[i] = t
    THEN CHOOSE i \in 1..Len(s) : s[i] = t /\ \A j \in (i + 1)..Len(s) : s[j] # t
    ELSE 0

\* content.substring(start, end) on 0-based offsets: the arguments are swapped
\* when start > end
Substring(s, start, end) ==
    IF start <= end THEN SubSeq(s, start + 1, end) ELSE SubSeq(s, end + 1, start)

\* picks = Array.isArray(parsed) ? parsed : (parsed.picks || []), for a text that
\* parsed: an array is itself, an object with a picks member gives that member, any
\* other value gives the empty array
PicksOf(s) ==
    IF s[1] = "[" THEN s
    ELSE IF s[1] = "{" THEN SubSeq(s, 2, Len(s) - 1)
    ELSE <<"[", "]">>

Failure == [ok |-> FALSE, picks |-> <<>>]

\* part_003:242-268: strip the fences, cut from the first '[' to the last ']', parse
ParsePart003(content) ==
    LET c == StripFences(content)
        jsonStart == IndexOf(c, "[") - 1
        jsonEnd == LastIndexOf(c, "]")
    IN IF jsonStart = -1 \/ jsonEnd = 0
       THEN Failure
       ELSE LET cut == Substring(c, jsonStart, jsonEnd)
            IN IF IsJson(cut) THEN [ok |-> TRUE, picks |-> PicksOf(cut)]
               ELSE Failure

\* gamblina.js:262-277: strip the fences, parse the whole content
ParseGamblina(content) ==
    LET c == StripFences(content)
    IN IF IsJson(c) THEN [ok |-> TRUE, picks |-> PicksOf(c)] ELSE Failure

ParseContent(build, content) ==
    IF build = "part_003" THEN ParsePart003(content) ELSE ParseGamblina(content)

\* the Analysis Service starts to write the content of a reply
ReplyStarts ==
    /\ ret.fn # "reply"
    /\ ret' = [fn |-> "reply", content |-> <<>>]
    /\ UNCHANGED <<otherVars, bookmark, scanState, nc>>

\* the Analysis Service writes one more token of the content
ReplyToken ==
    /\ ret.fn = "reply"
    /\ Len(ret.content) < MaxContent
    /\ \E t \in Tokens : ret' = [ret EXCEPT !.content = Append(@, t)]
    /\ UNCHANGED <<otherVars, bookmark, scanState, nc>>

\* analyzeBatch receives the reply, whose body parsed and has a first choice
DrvParseContent ==
    /\ ret.fn = "reply"
    /\ \E build \in Builds :
         ret' = [fn |-> "analyzeBatch", build |-> build, content |-> ret.content,
                 res |-> ParseContent(build, ret.content)]
    /\ UNCHANGED <<otherVars, bookmark, scanState, nc>>

NextParse == ReplyStarts \/ ReplyToken \/ DrvParseContent

SpecParse == InitAnalyze /\ [][NextParse]_vars

\* C29: analyzeBatch parses exactly the text from the first '[' to the last ']' of
\* the fence-stripped content; when there is no such pair or that text is not valid
\* JSON it raises a batch failure and returns no list
C29_BracketSubstring ==
    ret.fn = "analyzeBatch" =>
      LET c == StripFences(ret.content)
          first == IndexOf(c, "[")
          lst == LastIndexOf(c, "]")
          cut == SubSeq(c, first, lst)
      IN IF first # 0 /\ lst # 0 /\ first < lst /\ IsJson(cut)
         THEN ret.res.ok /\ ret.res.picks = cut
         ELSE ~ret.res.ok /\ ret.res.picks = <<>>

----------------------------------------------------------------------------
(* Scan state tracker, driven one call at a time *)

TrackerSteps == {"reddit", "analysis", "database", "complete"}
TrackerProgress == {20, 50, 90, 100}
TrackerDetails == {"", "found"}

\* error.message of the errors handed to setScanError; "" is an Error without text
ErrorMessages == {"", "fetch", "zero"}

trackerOtherVars ==
    <<zeroFails, schedLog, isRunning, pc, result, run, an, cache, ss, calls, impl, scans,
      picks, nextId, last, pending, req, rcache, bscan, q, bookmark, scanState, nc, rd,
      rl>>

DrvUpdateScanStatus ==
    /\ \E step \in TrackerSteps, progress \in TrackerProgress, details \in TrackerDetails :
         /\ status' = updateScanStatus(status, step, progress, details)
         /\ ret' = [fn |-> "updateScanStatus", pre |-> status]
    /\ UNCHANGED trackerOtherVars

DrvSetScanError ==
    /\ \E message \in ErrorMessages :
         /\ status' = setScanError(status, message)
         /\ ret' = [fn |-> "setScanError", message |-> message, pre |-> status]
    /\ UNCHANGED trackerOtherVars

DrvResetScanStatus ==
    /\ status' = resetScanStatus
    /\ ret' = [fn |-> "resetScanStatus", pre |-> status]
    /\ UNCHANGED trackerOtherVars

NextTracker == DrvUpdateScanStatus \/ DrvSetScanError \/ DrvResetScanStatus

SpecTracker == InitAnalyze /\ [][NextTracker]_vars

----------------------------------------------------------------------------
(* GET /api/picks/today (server.js) beside runScan on the hosted build *)

MaxReads == 1

\* the scan row of a scan id has been inserted
Promoted(sid) == \E row \in scans : row.id = sid

\* getCurrentPOTDPicks: the pick rows joined to the scans with is_current
getCurrentPOTDPicks(db) ==
    {x \in DOMAIN db.picks : \E row \in CurrentRows(db.scans) : row.id = x[1]}

readOtherVars ==
    <<pipelineVars, impl, scans, picks, nextId, last, pending, req, bscan, q, bookmark,
      scanState, ret, nc, rl>>

\* the handler up to its await: a hit is answered from the cache, a miss sends the
\* SELECT of getCurrentPOTDPicks
TodayRequest ==
    /\ rd.state = "idle"
    /\ rd.n < MaxReads
    /\ rd' = [rd EXCEPT !.n = @ + 1,
                        !.state = IF "picks:today" \in rcache THEN "idle" ELSE "query"]
    /\ UNCHANGED <<readOtherVars, rcache>>

\* the store executes the SELECT, or the query fails and the handler answers 500;
\* unpromoted notes the scan of the latest run whose scan row is not yet inserted
TodaySelect ==
    /\ rd.state = "query"
    /\ \E ok \in BOOLEAN :
         rd' = IF ok
               THEN [rd EXCEPT !.state = "reply", !.got = getCurrentPOTDPicks(Db),
                               !.unpromoted = IF run.owner # "none" /\ ~Promoted(run.scanId)
                                              THEN run.scanId ELSE 0]
               ELSE [rd EXCEPT !.state = "idle"]
    /\ UNCHANGED <<readOtherVars, rcache>>

\* the handler after its await: a result with picks is put under picks:today
TodayCaches(r, c) ==
    IF r.got # {}
    THEN [rd |-> [r EXCEPT !.state = "idle", !.entry = r.got,
                           !.entryUnpromoted = r.unpromoted,
                           !.got = {}, !.unpromoted = 0],
          rcache |-> c \cup {"picks:today"}]
    ELSE [rd |-> [r EXCEPT !.state = "idle", !.got = {}, !.unpromoted = 0], rcache |-> c]

\* the result reaches the handler
TodayReturns ==
    /\ rd.state = "reply"
    /\ rd' = TodayCaches(rd, rcache).rd
    /\ rcache' = TodayCaches(rd, rcache).rcache
    /\ UNCHANGED readOtherVars

\* the scans are those of the scheduler's timer
NextRead ==
    \/ RunScanStart("timer")
    \/ FetchFails("timer")
    \/ FetchReturns("timer")
    \/ AnBatchReply
    \/ AnBatchFail
    \/ AnDelayElapsed
    \/ AnalysisFails("timer")
    \/ PersistHosted("timer")
    \/ PgPickInsert("timer")
    \/ PgPersistDone("timer")
    \/ \E k \in 1..MaxCalls : PgSaveScanStep(k)
    \/ TodayRequest
    \/ TodaySelect
    \/ TodayReturns

SpecRead == InitQuery /\ [][NextRead]_vars

\* C34: after a successful scan has invalidated the caches and its scan row is
\* inserted, picks:today never holds the outdated result of a read that selected
\* from the store while that scan's row was not yet inserted
C34_NoStaleAfterInvalidation ==
    \A c \in Triggers :
       (/\ run.owner = c
        /\ pc[c] = "idle"
        /\ result[c] = "success"
        /\ Promoted(run.scanId))
       => ~(/\ "picks:today" \in rcache
            /\ rd.entryUnpromoted = run.scanId
            /\ rd.entry # getCurrentPOTDPicks(Db))

----------------------------------------------------------------------------
(* Rate limiter middleware (rateLimit.js), as mounted on POST /api/scan and
   POST /api/scan/prepare: rateLimit(15 * 60 * 1000, 5).  Time is counted in ticks *)

windowMs == 2
max == 2
CleanupAge == 3
MaxNow == 7
MaxLimiterCalls == 5

\* req.ip of the clients
ClientKeys == {"ip1", "ip2"}

\* rateLimitStore.get(key): the entries of the key (none or one)
RateEntry(store, key) == {e \in store : e.key = key}

\* a limiter that tests the count before it increments it
rateLimitChecksFirst(store, key, now) ==
    LET found == RateEntry(store, key)
        entry == IF found = {}
                 THEN [key |-> key, count |-> 0, resetTime |-> now + windowMs]
                 ELSE CHOOSE e \in found : TRUE
        fresh == IF now > entry.resetTime
                 THEN [entry EXCEPT !.count = 0, !.resetTime = now + windowMs]
                 ELSE entry
        counted == [fresh EXCEPT !.count = @ + 1]
    IN [store |-> (store \ found) \cup {counted},
        res |-> IF fresh.count > max THEN "429" ELSE "next"]

\* the middleware on one request: get or create the entry, reset it when the window
\* expired, count the request, answer 429 past max and call next() otherwise
rateLimit(store, key, now) ==
    LET found == RateEntry(store, key)
        entry == IF found = {}
                 THEN [key |-> key, count |-> 0, resetTime |-> now + windowMs]
                 ELSE CHOOSE e \in found : TRUE
        fresh == IF now > entry.resetTime
                 THEN [entry EXCEPT !.count = 0, !.resetTime = now + windowMs]
                 ELSE entry
        counted == [fresh EXCEPT !.count = @ + 1]
    IN [store |-> (store \ found) \cup {counted},
        res |-> IF counted.count > max THEN "429" ELSE "next"]

rateOtherVars ==
    <<pipelineVars, impl, scans, picks, nextId, last, pending, req, rcache, bscan, q,
      bookmark, scanState, ret, nc, rd>>

\* a request of a client reaches a limited route; passed logs the requests handed
\* to next(), with their time
RateLimitRequest ==
    /\ rl.n < MaxLimiterCalls
    /\ \E key \in ClientKeys :
         LET r == rateLimit(rl.store, key, rl.now)
         IN rl' = [rl EXCEPT !.store = r.store, !.key = key, !.res = r.res,
                             !.n = @ + 1,
                             !.passed = IF r.res = "next"
                                        THEN @ (+) SetToBag({<<key, rl.now>>})
                                        ELSE @]
    /\ UNCHANGED rateOtherVars

\* time passes
RateTick ==
    /\ rl.now < MaxNow
    /\ rl' = [rl EXCEPT !.now = @ + 1]
    /\ UNCHANGED rateOtherVars

\* the hourly setInterval: entries an hour past their reset are deleted
RateCleanup ==
    /\ \E e \in rl.store : rl.now > e.resetTime + CleanupAge
    /\ rl' = [rl EXCEPT !.store = {e \in @ : ~(rl.now > e.resetTime + CleanupAge)}]
    /\ UNCHANGED rateOtherVars

NextRate == RateLimitRequest \/ RateTick \/ RateCleanup

SpecRate == InitAnalyze /\ [][NextRate]_vars

\* the requests of a key handed to next() at a time within [from, to]
PassedIn(log, key, from, to) ==
    BagCardinality([x \in {y \in DOMAIN log : /\ y[1] = key
                                              /\ y[2] >= from
                                              /\ y[2] <= to} |-> log[x]])

\* C39: for each client key at most max requests are handed to the protected
\* handler between the start of a window and its resetTime, and a further request
\* in that window is answered 429 without next() being called
C39_AtMostMaxPerWindow ==
    /\ [](\A e \in rl.store :
            PassedIn(rl.passed, e.key, e.resetTime - windowMs, e.resetTime) <= max)
    /\ [][\A e \in rl.store :
            (/\ rl'.n = rl.n + 1
             /\ rl'.key = e.key
             /\ rl.now <= e.resetTime
             /\ PassedIn(rl.passed, e.key, e.resetTime - windowMs, e.resetTime) >= max)
            => /\ rl'.res = "429"
               /\ rl'.passed = rl.passed]_vars

\* a client that used a whole window is limited again in a later window
C39_Witness ==
    /\ rl.res = "429"
    /\ rl.key = "ip1"
    /\ \E e \in rl.store :
         /\ e.key = "ip1"
         /\ e.resetTime > 2 * windowMs
         /\ e.count > max
         /\ PassedIn(rl.passed, "ip1", e.resetTime - windowMs, e.resetTime) = max
    /\ PassedIn(rl.passed, "ip1", 0, MaxNow) > max

====
